---- MODULE Spec2Model ----
(***************************************************************************)
(* Model of the reconciliation engine of googledrive-sync-verifier:        *)
(*   - FileHeap (file_heap.go) driven through container/heap,              *)
(*   - compareManifests and its heuristic passes (manifest_comparison.go). *)
(* Paths are Go strings; the model keeps them as TLA+ strings and gives    *)
(* their bytes in Chars, so that <, filepath.Ext, the regexp and           *)
(* strings.ReplaceAll are computed on the characters.                      *)
(***************************************************************************)
EXTENDS Integers, Sequences, FiniteSets, TLC

\* ------------------------------------------------------------------------
\* Bounds of the model
\* ------------------------------------------------------------------------

\* records pushed into the two manifests together
MaxFiles == 4

\* records held by the heap of the heap specification
MaxHeap == 3

\* ------------------------------------------------------------------------
\* Strings
\* ------------------------------------------------------------------------

\* the bytes that occur in the modelled paths, in increasing byte order
Alphabet ==
  <<" ", "(", ")", ".", "/", "1", ":", "@", "B", "D", "S", "_", "a", "b", "c",
    "d", "e", "f", "g", "h", "i", "l", "n", "o", "r", "s", "t", "x", "y", "z">>

Ord(c) == CHOOSE i \in 1..Len(Alphabet) : Alphabet[i] = c

\* the paths files are drawn from
PathSet == {"a b.txt", "a:b (1).txt", "a:b.txt", "a_b.txt"}

\* the relative paths of the entries of the local tree, in the lexical order
\* filepath.Walk visits them
WalkOrder == <<"a b.txt", "b", "b(slash conflict)", "b.txt">>

\* the paths of the entries of the local tree with ignored names in it
IgnoredTreePaths ==
  {".DS_Store", "@eaDir", "@eaDir/b", "b.gdoc", "x/@eaDir", "x/@eaDir/b"}

\* the relative paths the files of the modelled listings can be given
RemotePathSet ==
  {".", "..", ".ds_store", "a_b", "b", "b.txt", "x", "x /b", "x/b", "x/y/a_b",
   "y/a_b", "z/b"}

\* the bytes of each path
Chars ==
  [p \in PathSet \cup {WalkOrder[i] : i \in 1..Len(WalkOrder)} \cup RemotePathSet
         \cup IgnoredTreePaths |->
     CASE p = "a b.txt"     -> <<"a", " ", "b", ".", "t", "x", "t">>
       [] p = "."           -> <<".">>
       [] p = ".."          -> <<".", ".">>
       [] p = ".ds_store"   -> <<".", "d", "s", "_", "s", "t", "o", "r", "e">>
       [] p = "x"           -> <<"x">>
       [] p = ".DS_Store"   -> <<".", "D", "S", "_", "S", "t", "o", "r", "e">>
       [] p = "@eaDir"      -> <<"@", "e", "a", "D", "i", "r">>
       [] p = "@eaDir/b"    -> <<"@", "e", "a", "D", "i", "r", "/", "b">>
       [] p = "b.gdoc"      -> <<"b", ".", "g", "d", "o", "c">>
       [] p = "x/@eaDir"    -> <<"x", "/", "@", "e", "a", "D", "i", "r">>
       [] p = "x/@eaDir/b"  -> <<"x", "/", "@", "e", "a", "D", "i", "r", "/", "b">>
       [] p = "x /b"        -> <<"x", " ", "/", "b">>
       [] p = "x/b"         -> <<"x", "/", "b">>
       [] p = "x/y/a_b"     -> <<"x", "/", "y", "/", "a", "_", "b">>
       [] p = "y/a_b"       -> <<"y", "/", "a", "_", "b">>
       [] p = "z/b"         -> <<"z", "/", "b">>
       [] p = "a_b"         -> <<"a", "_", "b">>
       [] p = "b"           -> <<"b">>
       [] p = "b(slash conflict)" ->
            <<"b", "(", "s", "l", "a", "s", "h", " ",
              "c", "o", "n", "f", "l", "i", "c", "t", ")">>
       [] p = "b.txt"       -> <<"b", ".", "t", "x", "t">>
       [] p = "a:b (1).txt" -> <<"a", ":", "b", " ", "(", "1", ")", ".", "t", "x", "t">>
       [] p = "a:b.txt"     -> <<"a", ":", "b", ".", "t", "x", "t">>
       [] p = "a_b.txt"     -> <<"a", "_", "b", ".", "t", "x", "t">>]

\* the content hashes: remote files always carry a digest, local files carry
\* one unless hashing is skipped
HashSet == {"h1", "h2"}

\* Go's s < t on strings: bytewise lexicographic order
StrLess(s, t) ==
  LET n == IF Len(s) < Len(t) THEN Len(s) ELSE Len(t)
      d == {i \in 1..n : s[i] # t[i]}
  IN  IF d = {} THEN Len(s) < Len(t)
      ELSE LET k == CHOOSE i \in d : \A j \in d : i <= j
           IN  Ord(s[k]) < Ord(t[k])

PathLess(p, q) == StrLess(Chars[p], Chars[q])

\* ------------------------------------------------------------------------
\* File and FileHeap
\* ------------------------------------------------------------------------

File(p, h) == [Path |-> p, OriginalPath |-> "", ContentHash |-> h]

\* the nil *File
Nil == [nil |-> TRUE]

\* a Less with the comparison the wrong way round
LessReversed(h, i, j) == PathLess(h[j + 1].Path, h[i + 1].Path)

\* FileHeap.Less on 0-based indices
Less(h, i, j) == PathLess(h[i + 1].Path, h[j + 1].Path)

\* FileHeap.Swap on 0-based indices
Swap(h, i, j) == [h EXCEPT ![i + 1] = h[j + 1], ![j + 1] = h[i + 1]]

\* container/heap up(h, j): i := (j-1)/2 truncates toward zero, so the
\* parent of 0 is 0 and the loop stops there
RECURSIVE up(_, _)
up(h, j) ==
  LET i == IF j = 0 THEN 0 ELSE (j - 1) \div 2
  IN  IF i = j \/ ~Less(h, j, i) THEN h
      ELSE up(Swap(h, i, j), i)

\* container/heap down(h, i, n)
RECURSIVE down(_, _, _)
down(h, i, n) ==
  LET j1 == 2 * i + 1
  IN  IF j1 >= n THEN h
      ELSE LET j2 == j1 + 1
               j  == IF j2 < n /\ Less(h, j2, j1) THEN j2 ELSE j1
           IN  IF ~Less(h, j, i) THEN h
               ELSE down(Swap(h, i, j), j, n)

\* a heap.Push that leaves the new record where FileHeap.Push appended it
HeapPushNoUp(h, x) == Append(h, x)

\* heap.Push(h, x): FileHeap.Push appends, then up(h, h.Len()-1)
HeapPush(h, x) == up(Append(h, x), Len(h))

\* heap.Pop(h): Swap(0, n); down(h, 0, n); FileHeap.Pop takes the last one
HeapPop(h) ==
  LET n == Len(h) - 1
      g == down(Swap(h, 0, n), 0, n)
  IN  [file |-> g[n + 1], heap |-> SubSeq(g, 1, n)]

\* a PopOrNil that calls FileHeap.Pop directly instead of heap.Pop
PopOrNilLast(h) ==
  IF Len(h) > 0 THEN [file |-> h[Len(h)], heap |-> SubSeq(h, 1, Len(h) - 1)]
  ELSE [file |-> Nil, heap |-> h]

\* FileHeap.PopOrNil
PopOrNil(h) ==
  IF Len(h) > 0 THEN HeapPop(h)
  ELSE [file |-> Nil, heap |-> h]

\* ------------------------------------------------------------------------
\* isPossibleMatch: the path transformations
\* ------------------------------------------------------------------------

\* filepath.Ext: the suffix from the last "." of the last path element, or ""
Ext(s) ==
  LET dots == {i \in 1..Len(s) : s[i] = "." /\ \A j \in i..Len(s) : s[j] # "/"}
  IN  IF dots = {} THEN <<>>
      ELSE LET k == CHOOSE i \in dots : \A j \in dots : j <= i
           IN  SubSeq(s, k, Len(s))

\* strings.TrimSuffix
TrimSuffix(s, suffix) ==
  IF Len(suffix) <= Len(s) /\ SubSeq(s, Len(s) - Len(suffix) + 1, Len(s)) = suffix
  THEN SubSeq(s, 1, Len(s) - Len(suffix))
  ELSE s

\* possibleDuplicateRegexp ` \(1\)(/|$)` matches at position i of s
DuplicateMarkerAt(s, i) ==
  /\ i + 3 <= Len(s)
  /\ SubSeq(s, i, i + 3) = <<" ", "(", "1", ")">>
  /\ (i + 4 > Len(s) \/ s[i + 4] = "/")

\* possibleDuplicateRegexp.ReplaceAllString(s, "$1"), scanning from position i:
\* every leftmost non-overlapping match is replaced by its group 1 ("/" or "")
RECURSIVE ReplaceDuplicateMarker(_, _)
ReplaceDuplicateMarker(s, i) ==
  IF i > Len(s) THEN <<>>
  ELSE IF DuplicateMarkerAt(s, i)
       THEN IF i + 4 > Len(s) THEN <<>>
            ELSE <<"/">> \o ReplaceDuplicateMarker(s, i + 5)
       ELSE <<s[i]>> \o ReplaceDuplicateMarker(s, i + 1)

\* strings.ReplaceAll(s, "_", " ")
ReplaceUnderscores(s) == [i \in 1..Len(s) |-> IF s[i] = "_" THEN " " ELSE s[i]]

\* the transformations without the replacement of underscores
NormalizePathKeepUnderscores(p) ==
  ReplaceDuplicateMarker(TrimSuffix(Chars[p], Ext(Chars[p])), 1)

\* the three transformations isPossibleMatch applies to each path
NormalizePath(p) ==
  LET s1 == TrimSuffix(Chars[p], Ext(Chars[p]))
      s2 == ReplaceDuplicateMarker(s1, 1)
  IN  ReplaceUnderscores(s2)

isPossibleMatch(remoteFile, localFile) ==
  IF remoteFile.ContentHash # localFile.ContentHash THEN FALSE
  ELSE NormalizePath(localFile.Path) = NormalizePath(remoteFile.Path)

\* strings.Contains(path, ":")
hasKnownSyncIssue(path) == \E i \in 1..Len(Chars[path]) : Chars[path][i] = ":"

\* ------------------------------------------------------------------------
\* ManifestComparison
\* ------------------------------------------------------------------------

\* &ManifestComparison{Errored: errored}
NewComparison(errored) ==
  [OnlyRemote |-> <<>>, OnlyLocal |-> <<>>, ContentMismatch |-> <<>>,
   PossibleMatches |-> <<>>, KnownSyncIssues |-> <<>>, Errored |-> errored,
   Matches |-> 0, Misses |-> 0]

\* deleteFromSlice, index 0-based as in the source
deleteFromSlice(coll, index) ==
  SubSeq(coll, 1, index) \o SubSeq(coll, index + 2, Len(coll))

\* a compareFileContents that never reports a difference
compareFileContentsAlways(remote, local) == TRUE

\* a compareFileContents that skips the comparison when the local hash is empty
compareFileContentsLocalEmpty(remote, local) ==
  local.ContentHash = "" \/ remote.ContentHash = local.ContentHash

compareFileContents(remote, local) == remote.ContentHash = local.ContentHash

\* the loop of compareManifests (lines 40-68): local and remote are the records
\* in hand, lm and rm the heaps, mc the comparison so far, n the iterations made
RECURSIVE MergeLoop(_, _, _, _, _, _)
MergeLoop(local, remote, lm, rm, mc, n) ==
  IF local = Nil /\ remote = Nil
  THEN [comparison |-> mc, localManifest |-> lm, remoteManifest |-> rm, iterations |-> n]
  ELSE
    LET popL == PopOrNil(lm)
        popR == PopOrNil(rm)
        onlyRemote == [mc EXCEPT !.OnlyRemote = Append(@, remote), !.Misses = @ + 1]
        onlyLocal  == [mc EXCEPT !.OnlyLocal = Append(@, local), !.Misses = @ + 1]
    IN  IF local = Nil
        THEN MergeLoop(local, popR.file, lm, popR.heap, onlyRemote, n + 1)
        ELSE IF remote = Nil
        THEN MergeLoop(popL.file, remote, popL.heap, rm, onlyLocal, n + 1)
        ELSE IF PathLess(remote.Path, local.Path)
        THEN MergeLoop(local, popR.file, lm, popR.heap, onlyRemote, n + 1)
        ELSE IF PathLess(local.Path, remote.Path)
        THEN MergeLoop(popL.file, remote, popL.heap, rm, onlyLocal, n + 1)
        ELSE
          LET both == IF compareFileContents(remote, local)
                      THEN [mc EXCEPT !.Matches = @ + 1]
                      ELSE [mc EXCEPT !.ContentMismatch = Append(@, local.Path),
                                      !.Misses = @ + 1]
          IN  MergeLoop(popL.file, popR.file, popL.heap, popR.heap, both, n + 1)

\* a merge that pops the remote heap twice before its loop, so that the
\* first remote record is lost
MergeManifestsSkipFirst(rm, lm, errored) ==
  LET popL == PopOrNil(lm)
      popR == PopOrNil(PopOrNil(rm).heap)
  IN  MergeLoop(popL.file, popR.file, popL.heap, popR.heap, NewComparison(errored), 0)

\* a merge that does not count a content mismatch as a miss
MergeManifestsMismatchNoMiss(rm, lm, errored) ==
  LET popL == PopOrNil(lm)
      popR == PopOrNil(rm)
      r    == MergeLoop(popL.file, popR.file, popL.heap, popR.heap,
                        NewComparison(errored), 0)
  IN  [r EXCEPT !.comparison.Misses = @ - Len(r.comparison.ContentMismatch)]

\* compareManifests lines 37-68: the first two pops and the loop
MergeManifests(rm, lm, errored) ==
  LET popL == PopOrNil(lm)
      popR == PopOrNil(rm)
  IN  MergeLoop(popL.file, popR.file, popL.heap, popR.heap, NewComparison(errored), 0)

\* FindKnownSyncIssues: i runs from len-1 down to 0 (0-based)
RECURSIVE KnownSyncLoop(_, _)
KnownSyncLoop(mc, i) ==
  IF i < 0 THEN mc
  ELSE LET file == mc.OnlyRemote[i + 1]
       IN  IF hasKnownSyncIssue(file.Path)
           THEN KnownSyncLoop(
                  [mc EXCEPT !.KnownSyncIssues = <<file.Path>> \o @,
                             !.OnlyRemote = deleteFromSlice(@, i)], i - 1)
           ELSE KnownSyncLoop(mc, i - 1)

\* a FindKnownSyncIssues that appends each path it finds, last entry first
FindKnownSyncIssuesAppend(mc) ==
  LET r == KnownSyncLoop(mc, Len(mc.OnlyRemote) - 1)
      n == Len(r.KnownSyncIssues)
  IN  [r EXCEPT !.KnownSyncIssues = [k \in 1..n |-> r.KnownSyncIssues[n - k + 1]]]

FindKnownSyncIssues(mc) == KnownSyncLoop(mc, Len(mc.OnlyRemote) - 1)

\* the index of the first local file that possibly matches, 0-based, or -1
FirstPossibleMatch(remoteFile, onlyLocal) ==
  LET js == {j \in 1..Len(onlyLocal) : isPossibleMatch(remoteFile, onlyLocal[j])}
  IN  IF js = {} THEN -1
      ELSE (CHOOSE j \in js : \A k \in js : j <= k) - 1

\* the first loop of FindPossibleMatches (lines 88-107): remotes is the slice
\* the outer range iterates, i its 0-based index, indices remoteMatchIndices
RECURSIVE PossibleMatchLoop(_, _, _, _)
PossibleMatchLoop(mc, remotes, i, indices) ==
  IF i >= Len(remotes) THEN [comparison |-> mc, remoteMatchIndices |-> indices]
  ELSE LET remoteFile == remotes[i + 1]
           j == FirstPossibleMatch(remoteFile, mc.OnlyLocal)
       IN  IF j < 0 THEN PossibleMatchLoop(mc, remotes, i + 1, indices)
           ELSE PossibleMatchLoop(
                  [mc EXCEPT
                     !.PossibleMatches =
                        Append(@, [LocalPath |-> mc.OnlyLocal[j + 1].Path,
                                   RemotePath |-> remoteFile.Path]),
                     !.OnlyLocal = deleteFromSlice(@, j),
                     !.Misses = @ - 2,
                     !.Matches = @ + 1],
                  remotes, i + 1, <<i>> \o indices)

\* the second loop of FindPossibleMatches (lines 108-110)
RECURSIVE DeleteRemoteMatches(_, _)
DeleteRemoteMatches(mc, indices) ==
  IF indices = <<>> THEN mc
  ELSE DeleteRemoteMatches(
         [mc EXCEPT !.OnlyRemote = deleteFromSlice(@, Head(indices))], Tail(indices))

\* a FindPossibleMatches that leaves the matched remote files in OnlyRemote
FindPossibleMatchesKeepRemote(mc) ==
  PossibleMatchLoop(mc, mc.OnlyRemote, 0, <<>>).comparison

\* a FindPossibleMatches that takes one miss, not two, off Misses per match
FindPossibleMatchesOneMiss(mc) ==
  LET r == PossibleMatchLoop(mc, mc.OnlyRemote, 0, <<>>)
      m == DeleteRemoteMatches(r.comparison, r.remoteMatchIndices)
  IN  [m EXCEPT !.Misses = mc.Misses - Len(r.remoteMatchIndices)]

\* a FindPossibleMatches that deletes the matched remote files lowest index
\* first
FindPossibleMatchesLowestFirst(mc) ==
  LET r  == PossibleMatchLoop(mc, mc.OnlyRemote, 0, <<>>)
      lowestFirst == [k \in 1..Len(r.remoteMatchIndices) |->
               r.remoteMatchIndices[Len(r.remoteMatchIndices) - k + 1]]
  IN  DeleteRemoteMatches(r.comparison, lowestFirst)

FindPossibleMatches(mc) ==
  LET r == PossibleMatchLoop(mc, mc.OnlyRemote, 0, <<>>)
  IN  DeleteRemoteMatches(r.comparison, r.remoteMatchIndices)

\* passes in the other order: the fuzzy match first, then the known issues
HeuristicPassesFuzzyFirst(mc, mode) ==
  LET m == FindPossibleMatches(mc)
  IN  IF mode THEN FindKnownSyncIssues(m) ELSE m

\* compareManifests lines 69-73: the passes after the loop
HeuristicPasses(mc, synologyMode) ==
  FindPossibleMatches(IF synologyMode THEN FindKnownSyncIssues(mc) ELSE mc)

\* compareManifests as a whole: the comparison it returns
compareManifests(rm, lm, errored, synologyMode) ==
  HeuristicPasses(MergeManifests(rm, lm, errored).comparison, synologyMode)

\* an IsSuccessful that takes a comparison without misses for a failure
IsSuccessfulBelowZero(mc) == mc.Misses < 0

\* ManifestComparison.IsSuccessful
IsSuccessful(mc) == mc.Misses <= 0

\* ------------------------------------------------------------------------
\* State
\* ------------------------------------------------------------------------

VARIABLES
  skipContentHash,  \* opts.SkipContentHash
  synologyMode,     \* opts.Synology
  remoteManifest,   \* the FileHeap getGoogleDriveManifest fills
  localManifest,    \* the FileHeap getLocalManifest fills
  pc,               \* where main is: "build", "merged", "done", "again"
  comparison,       \* the ManifestComparison of compareManifests
  iterations,       \* iterations the loop of compareManifests has made
  remoteIn,         \* the remote heap as compareManifests received it
  localIn,          \* the local heap as compareManifests received it
  heap,             \* heap specification: a FileHeap
  popped,           \* heap specification: what the last PopOrNil returned
  previous,         \* heap specification: what the PopOrNil before it returned
  pushedBetween,    \* heap specification: a heap.Push came between those two
  lastOp            \* heap specification: the last operation, "push" or "pop"

compareVars ==
  <<skipContentHash, synologyMode, remoteManifest, localManifest, pc,
    comparison, iterations, remoteIn, localIn>>

heapVars == <<heap, popped, previous, pushedBetween, lastOp>>

\* getLocalManifest and its goroutines; the manifest it fills is localManifest
VARIABLES
  tree,             \* the entries filepath.Walk hands to the callback, in order
  workerCount,      \* the number of handleLocalFile goroutines
  walkIdx,          \* walker: the entry the callback is called with next
  processClosed,    \* close(processChan) has run
  workerState,      \* per worker: "idle" (at the range), "busy", "exited"
  workerEntry,      \* per worker: the entry it received from processChan
  supervisor,       \* the wg.Wait goroutine: "wait", "closedResult", "done"
  resultClosed,     \* close(resultChan) has run
  errorClosed,      \* close(errorChan) has run
  consumer,         \* getLocalManifest: "idle" (not called), in its loop at
                    \* "select", "progressLocal" or "progressError", "returned"
  resultNil,        \* the loop has set resultChan = nil
  errorNil,         \* the loop has set errorChan = nil
  errored,          \* the []*FileError getLocalManifest returns
  localErr,         \* the error getLocalManifest returns
  localCount,       \* aggregator in main: localCount
  errorCount,       \* aggregator in main: errorCount
  sendPanic         \* a goroutine has sent on a closed channel

localVars ==
  <<tree, workerCount, walkIdx, processClosed, workerState, workerEntry,
    supervisor, resultClosed, errorClosed, consumer, resultNil, errorNil,
    errored, localErr, localCount, errorCount, sendPanic>>

\* getGoogleDriveManifest, DriveListing.Files and the relay goroutine; the
\* manifest it fills is remoteManifest
VARIABLES
  RootPath,         \* DriveListing.RootPath
  drivePages,       \* what the service lists: the pages Files.List answers with
  rpc,              \* getGoogleDriveManifest: "idle" (not called), Files at
                    \* "root", "page", "update" or "resolve", "returned"
  attempts,         \* failed attempts of the retry.Do in progress
  rootId,           \* DriveListing.rootId
  pageIdx,          \* the page nextPageToken asks for
  driveFiles,       \* DriveListing.driveFiles
  driveFolders,     \* DriveListing.driveFolders
  scannedFiles,     \* Files: scannedFiles
  resolveIdx,       \* Files: position of the second loop in driveFiles
  listed,           \* Files: the result files
  driveError,       \* the error getGoogleDriveManifest returns
  relayBusy,        \* the relay goroutine holds a count to forward
  relayCount,       \* the count it holds
  remoteCount       \* aggregator in main: remoteCount

remoteVars ==
  <<RootPath, drivePages, rpc, attempts, rootId, pageIdx, driveFiles,
    driveFolders, scannedFiles, resolveIdx, listed, driveError, relayBusy,
    relayCount, remoteCount>>

\* main: its own goroutine and the two goroutines that call the builders
VARIABLES
  mpc,              \* main: "idle", "wait" (at wg.Wait), "closed" (progressChan
                    \* closed), "panicked", "exit0", "exit1"
  remoteRun,        \* the goroutine of getGoogleDriveManifest: "idle",
                    \* "running", "returned" (wg.Done called)
  localRun,         \* the goroutine of getLocalManifest, likewise
  progressOpen      \* progressChan is not closed

mainVars == <<mpc, remoteRun, localRun, progressOpen>>

\* the directory cache of the listing command and the result of its last
\* PathLookup
VARIABLES
  driveDirectoryCache,  \* the maps Parents, Paths and Names, and the keys of
                        \* the map SharedDirectories
  lookup                \* id, path and err of the last PathLookup

cacheVars == <<driveDirectoryCache, lookup>>

\* the variables outside the comparison and the heap on its own
restVars == <<localVars, remoteVars, mainVars, cacheVars>>

vars == <<compareVars, heapVars, restVars>>

\* ------------------------------------------------------------------------
\* Building the manifests and comparing them (main)
\* ------------------------------------------------------------------------

InitCompare ==
  /\ skipContentHash \in BOOLEAN
  /\ synologyMode \in BOOLEAN
  /\ remoteManifest = <<>>
  /\ localManifest = <<>>
  /\ pc = "build"
  /\ comparison = NewComparison(<<>>)
  /\ iterations = 0
  /\ remoteIn = <<>>
  /\ localIn = <<>>

InitHeap ==
  /\ heap = <<>>
  /\ popped = Nil
  /\ previous = Nil
  /\ pushedBetween = FALSE
  /\ lastOp = "none"

\* getLocalManifest before it is called
InitLocalIdle ==
  /\ tree = <<>>
  /\ workerCount = 0
  /\ walkIdx = 1
  /\ processClosed = FALSE
  /\ workerState = <<>>
  /\ workerEntry = <<>>
  /\ supervisor = "wait"
  /\ resultClosed = FALSE
  /\ errorClosed = FALSE
  /\ consumer = "idle"
  /\ resultNil = FALSE
  /\ errorNil = FALSE
  /\ errored = <<>>
  /\ localErr = "nil"
  /\ localCount = 0
  /\ errorCount = 0
  /\ sendPanic = FALSE

\* getGoogleDriveManifest before it is called
InitRemoteIdle ==
  /\ RootPath = <<>>
  /\ drivePages = <<>>
  /\ rpc = "idle"
  /\ attempts = 0
  /\ rootId = ""
  /\ pageIdx = 1
  /\ driveFiles = <<>>
  /\ driveFolders = <<>>
  /\ scannedFiles = 0
  /\ resolveIdx = 1
  /\ listed = <<>>
  /\ driveError = "nil"
  /\ relayBusy = FALSE
  /\ relayCount = 0
  /\ remoteCount = 0

\* main before it starts the builders
InitMainIdle ==
  /\ mpc = "idle"
  /\ remoteRun = "idle"
  /\ localRun = "idle"
  /\ progressOpen = TRUE

\* the id Files.Get("root") answers with
RootId == "root"

\* the finite map with the one key k
One(k, v) == [i \in {k} |-> v]

\* NewDriveDirectoryCache: empty maps, and the root with the path ""
NewDriveDirectoryCache(root) ==
  [Parents |-> <<>>, Paths |-> One(root, <<>>), Names |-> <<>>,
   SharedDirectories |-> {}]

\* the cache as constructed, no PathLookup made
InitCache ==
  /\ driveDirectoryCache = NewDriveDirectoryCache(RootId)
  /\ lookup = [id |-> "", path |-> <<>>, err |-> FALSE]

InitRest == InitLocalIdle /\ InitRemoteIdle /\ InitMainIdle /\ InitCache

Init == InitCompare /\ InitHeap /\ InitRest

\* the digests local records carry: "" for every file when hashing is skipped
LocalHashes == IF skipContentHash THEN {""} ELSE HashSet

\* getGoogleDriveManifest: heap.Push(manifest, file)
PushRemote ==
  /\ pc = "build"
  /\ Len(remoteManifest) + Len(localManifest) < MaxFiles
  /\ \E p \in PathSet, c \in HashSet :
       remoteManifest' = HeapPush(remoteManifest, File(p, c))
  /\ UNCHANGED <<skipContentHash, synologyMode, localManifest, pc, comparison,
                 iterations, remoteIn, localIn, heapVars, restVars>>

\* getLocalManifest: heap.Push(manifest, result)
PushLocal ==
  /\ pc = "build"
  /\ Len(remoteManifest) + Len(localManifest) < MaxFiles
  /\ \E p \in PathSet, c \in LocalHashes :
       localManifest' = HeapPush(localManifest, File(p, c))
  /\ UNCHANGED <<skipContentHash, synologyMode, remoteManifest, pc, comparison,
                 iterations, remoteIn, localIn, heapVars, restVars>>

\* compareManifests up to the end of its loop
Merge ==
  /\ pc = "build"
  /\ LET r == MergeManifests(remoteManifest, localManifest, <<>>)
     IN  /\ comparison' = r.comparison
         /\ iterations' = r.iterations
         /\ remoteManifest' = r.remoteManifest
         /\ localManifest' = r.localManifest
  /\ remoteIn' = remoteManifest
  /\ localIn' = localManifest
  /\ pc' = "merged"
  /\ UNCHANGED <<skipContentHash, synologyMode, heapVars, restVars>>

\* compareManifests from the end of its loop to its return
Heuristics ==
  /\ pc = "merged"
  /\ comparison' = HeuristicPasses(comparison, synologyMode)
  /\ pc' = "done"
  /\ UNCHANGED <<skipContentHash, synologyMode, remoteManifest, localManifest,
                 iterations, remoteIn, localIn, heapVars, restVars>>

\* FindPossibleMatches called once more on the returned comparison
FindAgain ==
  /\ pc = "done"
  /\ comparison' = FindPossibleMatches(comparison)
  /\ pc' = "again"
  /\ UNCHANGED <<skipContentHash, synologyMode, remoteManifest, localManifest,
                 iterations, remoteIn, localIn, heapVars, restVars>>

Next == PushRemote \/ PushLocal \/ Merge \/ Heuristics \/ FindAgain

Spec == Init /\ [][Next]_vars

\* ------------------------------------------------------------------------
\* FileHeap on its own: any sequence of heap.Push and PopOrNil
\* ------------------------------------------------------------------------

DoPush ==
  /\ Len(heap) < MaxHeap
  /\ \E p \in PathSet, c \in HashSet : heap' = HeapPush(heap, File(p, c))
  /\ lastOp' = "push"
  /\ UNCHANGED <<popped, previous, pushedBetween, compareVars, restVars>>

DoPopOrNil ==
  /\ heap' = PopOrNil(heap).heap
  /\ popped' = PopOrNil(heap).file
  /\ previous' = popped
  /\ pushedBetween' = (lastOp = "push")
  /\ lastOp' = "pop"
  /\ UNCHANGED <<compareVars, restVars>>

NextHeap == DoPush \/ DoPopOrNil

\* the options play no part in the heap: they are fixed
InitHeapOnly == Init /\ skipContentHash = FALSE /\ synologyMode = FALSE

SpecHeap == InitHeapOnly /\ [][NextHeap]_vars

\* ------------------------------------------------------------------------
\* What the properties below are stated with
\* ------------------------------------------------------------------------

\* the paths that hold a ":"
ColonPaths == {"a:b (1).txt", "a:b.txt"}

\* the pairs of different paths that the transformations of isPossibleMatch
\* make equal: "a b" for the first pair, "a:b" for the second
FuzzyPairs == {{"a b.txt", "a_b.txt"}, {"a:b (1).txt", "a:b.txt"}}

FuzzyEqualPaths(p, q) == p = q \/ {p, q} \in FuzzyPairs

\* a remote and a local record that the fuzzy match is to pair
Candidates(r, l) == r.ContentHash = l.ContentHash /\ FuzzyEqualPaths(r.Path, l.Path)

Range(seq) == {seq[i] : i \in DOMAIN seq}

PathsOf(files) == {files[i].Path : i \in DOMAIN files}

NoDuplicatePaths(files) ==
  \A i, j \in DOMAIN files : files[i].Path = files[j].Path => i = j

\* how many records of files have path p
CountPath(files, p) == Cardinality({i \in DOMAIN files : files[i].Path = p})

\* how many times x occurs in seq
Count(seq, x) == Cardinality({i \in DOMAIN seq : seq[i] = x})

\* the record of path p in a manifest without duplicate paths
RecordOf(files, p) == files[CHOOSE i \in DOMAIN files : files[i].Path = p]

OnlyInRemote == PathsOf(remoteIn) \ PathsOf(localIn)

OnlyInLocal == PathsOf(localIn) \ PathsOf(remoteIn)

InBoth == PathsOf(remoteIn) \cap PathsOf(localIn)

SameHash(p) == RecordOf(remoteIn, p).ContentHash = RecordOf(localIn, p).ContentHash

EmptyHash(p) ==
  RecordOf(remoteIn, p).ContentHash = "" \/ RecordOf(localIn, p).ContentHash = ""

\* ------------------------------------------------------------------------
\* Properties of compareManifests
\* ------------------------------------------------------------------------

\* C1: with no duplicate paths on either side, the loop of compareManifests
\* classifies every path exactly once: only-remote paths go to OnlyRemote,
\* only-local paths to OnlyLocal, paths on both sides with differing hashes to
\* ContentMismatch, each adding 1 to Misses; paths on both sides with equal
\* hashes add 1 to Matches and appear in no list.
C1_MergeClassifiesEveryPathOnce ==
  (pc = "merged" /\ NoDuplicatePaths(remoteIn) /\ NoDuplicatePaths(localIn)) =>
    /\ \A p \in PathSet :
         /\ CountPath(comparison.OnlyRemote, p) = (IF p \in OnlyInRemote THEN 1 ELSE 0)
         /\ CountPath(comparison.OnlyLocal, p) = (IF p \in OnlyInLocal THEN 1 ELSE 0)
         /\ Count(comparison.ContentMismatch, p)
              = (IF p \in InBoth /\ ~SameHash(p) THEN 1 ELSE 0)
    /\ Range(comparison.OnlyRemote) \subseteq Range(remoteIn)
    /\ Range(comparison.OnlyLocal) \subseteq Range(localIn)
    /\ comparison.Misses = Cardinality(OnlyInRemote) + Cardinality(OnlyInLocal)
                             + Cardinality({p \in InBoth : ~SameHash(p)})
    /\ comparison.Matches = Cardinality({p \in InBoth : SameHash(p)})

\* C1 witness: a merge that has found an only-remote path, an only-local path
\* and a content mismatch
C1_Witness ==
  /\ pc = "merged"
  /\ NoDuplicatePaths(remoteIn) /\ NoDuplicatePaths(localIn)
  /\ Len(comparison.OnlyRemote) = 1
  /\ Len(comparison.OnlyLocal) = 1
  /\ Len(comparison.ContentMismatch) = 1

\* C2: a path on both sides whose content hash is empty on either side counts
\* as a match: it adds 1 to Matches, nothing to Misses, and is not put in
\* ContentMismatch.
C2_EmptyHashIsAMatch ==
  (pc = "merged" /\ NoDuplicatePaths(remoteIn) /\ NoDuplicatePaths(localIn)) =>
    /\ \A p \in InBoth : EmptyHash(p) => Count(comparison.ContentMismatch, p) = 0
    /\ comparison.Matches = Cardinality({p \in InBoth : EmptyHash(p) \/ SameHash(p)})
    /\ comparison.Misses = Cardinality(OnlyInRemote) + Cardinality(OnlyInLocal)
                             + Cardinality({p \in InBoth : ~EmptyHash(p) /\ ~SameHash(p)})

\* C3: in known-issue mode every only-remote entry whose path holds ":" is
\* moved from OnlyRemote to KnownSyncIssues and is not counted in Misses; with
\* remote = {"a:b.txt"} and nothing local, KnownSyncIssues = <<"a:b.txt">>,
\* OnlyRemote is empty, Misses = 0 and IsSuccessful() is true.
C3_KnownIssuesLeaveMisses ==
  (pc = "done" /\ synologyMode) =>
    /\ \A i \in DOMAIN comparison.OnlyRemote :
         comparison.OnlyRemote[i].Path \notin ColonPaths
    /\ comparison.Misses = Len(comparison.OnlyRemote) + Len(comparison.OnlyLocal)
                             + Len(comparison.ContentMismatch)
    /\ (PathsOf(remoteIn) = {"a:b.txt"} /\ Len(remoteIn) = 1 /\ localIn = <<>>) =>
         /\ comparison.KnownSyncIssues = <<"a:b.txt">>
         /\ comparison.OnlyRemote = <<>>
         /\ comparison.Misses = 0
         /\ IsSuccessful(comparison)

\* the remote entry i and the local entry j of the comparison are candidates of
\* each other and of no other entry
OnlyCandidates(mc, i, j) ==
  /\ Candidates(mc.OnlyRemote[i], mc.OnlyLocal[j])
  /\ \A k \in DOMAIN mc.OnlyLocal : Candidates(mc.OnlyRemote[i], mc.OnlyLocal[k]) => k = j
  /\ \A k \in DOMAIN mc.OnlyRemote : Candidates(mc.OnlyRemote[k], mc.OnlyLocal[j]) => k = i

\* after the passes, the remote entry i and the local entry j of the comparison
\* mc are a possible match and in neither list; the match is entered once (two
\* pairs with the same two paths, which takes duplicate paths, give two entries)
PairedOff(mc, i, j, after) ==
  /\ LET n == Count(after.PossibleMatches,
                    [LocalPath |-> mc.OnlyLocal[j].Path,
                     RemotePath |-> mc.OnlyRemote[i].Path])
     IN  /\ n >= 1
         /\ (NoDuplicatePaths(remoteIn) /\ NoDuplicatePaths(localIn)) => n = 1
  /\ mc.OnlyRemote[i] \notin Range(after.OnlyRemote)
  /\ mc.OnlyLocal[j] \notin Range(after.OnlyLocal)

\* C4, as claimed: an only-remote and an only-local entry of the merge with the
\* same hash and fuzzy-equal paths, each the other's only candidate, end as one
\* PossibleMatches entry and in neither OnlyRemote nor OnlyLocal.
C4_CandidatesArePairedOff ==
  [][pc = "merged" =>
       \A i \in DOMAIN comparison.OnlyRemote, j \in DOMAIN comparison.OnlyLocal :
         OnlyCandidates(comparison, i, j) => PairedOff(comparison, i, j, comparison')]_vars

\* C4, amended: the same, unless known-issue mode is on and the remote path
\* holds ":" (the entry is then moved to KnownSyncIssues before the fuzzy match).
C4_CandidatesArePairedOffUnlessKnownIssue ==
  [][pc = "merged" =>
       \A i \in DOMAIN comparison.OnlyRemote, j \in DOMAIN comparison.OnlyLocal :
         (/\ OnlyCandidates(comparison, i, j)
          /\ ~(synologyMode /\ comparison.OnlyRemote[i].Path \in ColonPaths))
           => PairedOff(comparison, i, j, comparison')]_vars

\* C4 witness: remote "a:b (1).txt" and local "a:b.txt" with the same hash have
\* become one possible match, with nothing left over
C4_Witness ==
  /\ pc = "done"
  /\ PathsOf(remoteIn) = {"a:b (1).txt"} /\ PathsOf(localIn) = {"a:b.txt"}
  /\ comparison.PossibleMatches
       = <<[LocalPath |-> "a:b.txt", RemotePath |-> "a:b (1).txt"]>>
  /\ comparison.OnlyRemote = <<>> /\ comparison.OnlyLocal = <<>>
  /\ comparison.Misses = 0

\* C5: each entry added to PossibleMatches takes exactly two off Misses and
\* adds one to Matches, so Matches + Misses + len(PossibleMatches) is the number
\* of classifications the merge made, and Misses >= 0 on return.
C5_PossibleMatchAccounting ==
  [][pc = "merged" =>
       LET k == Len(comparison'.PossibleMatches) - Len(comparison.PossibleMatches)
       IN  /\ comparison'.Misses = comparison.Misses - 2 * k
           /\ comparison'.Matches = comparison.Matches + k
           /\ comparison'.Matches + comparison'.Misses
                + Len(comparison'.PossibleMatches) = iterations
           /\ comparison'.Misses >= 0]_vars

\* C5 witness: a comparison that has returned with two possible matches
C5_Witness == pc = "done" /\ Len(comparison.PossibleMatches) = 2

\* both manifests hold the same records, each record once
SameRecords ==
  /\ Range(remoteIn) = Range(localIn)
  /\ Len(remoteIn) = Cardinality(Range(remoteIn))
  /\ Len(localIn) = Cardinality(Range(localIn))

AllMatched ==
  /\ comparison.Misses = 0
  /\ comparison.Matches = Cardinality(Range(remoteIn))
  /\ comparison.OnlyRemote = <<>>
  /\ comparison.OnlyLocal = <<>>
  /\ comparison.ContentMismatch = <<>>

\* C6, as claimed: two manifests holding the same set A of (path, hash) records
\* give Misses = 0, Matches = |A| and empty OnlyRemote, OnlyLocal, ContentMismatch.
C6_SameRecordsAllMatch == (pc = "done" /\ SameRecords) => AllMatched

\* C6, amended: the same, for a set A in which no two records share a path.
C6_SameRecordsDistinctPathsAllMatch ==
  (pc = "done" /\ SameRecords /\ NoDuplicatePaths(remoteIn)) => AllMatched

\* C6 witness: two manifests of the same two records have been compared
C6_Witness ==
  /\ pc = "done"
  /\ SameRecords /\ NoDuplicatePaths(remoteIn)
  /\ Len(remoteIn) = 2
  /\ comparison.Matches = 2

\* the result of compareManifests with the two manifests exchanged
Exchanged == compareManifests(localIn, remoteIn, <<>>, synologyMode)

ExchangeExchangesOnlyLists ==
  /\ Exchanged.OnlyRemote = comparison.OnlyLocal
  /\ Exchanged.OnlyLocal = comparison.OnlyRemote
  /\ Exchanged.ContentMismatch = comparison.ContentMismatch
  /\ Exchanged.Matches = comparison.Matches

\* C7, as claimed: in either mode, exchanging the manifests passed to
\* compareManifests exchanges OnlyRemote and OnlyLocal and leaves
\* ContentMismatch and Matches as they are.
C7_ExchangeSymmetry == pc = "done" => ExchangeExchangesOnlyLists

\* C7, amended: the same with known-issue mode off.
C7_ExchangeSymmetryModeOff ==
  (pc = "done" /\ ~synologyMode) => ExchangeExchangesOnlyLists

\* C7 witness: a comparison with known-issue mode off that left an only-remote
\* entry, an only-local entry and a content mismatch
C7_Witness ==
  /\ pc = "done" /\ ~synologyMode
  /\ comparison.OnlyRemote # <<>>
  /\ comparison.OnlyLocal # <<>>
  /\ comparison.ContentMismatch # <<>>

\* C8: FindPossibleMatches run again on a comparison on which it has run adds
\* nothing to PossibleMatches and changes none of OnlyRemote, OnlyLocal, Misses
\* and Matches.
C8_FindPossibleMatchesIdempotent ==
  [][pc = "done" =>
       /\ comparison'.PossibleMatches = comparison.PossibleMatches
       /\ comparison'.OnlyRemote = comparison.OnlyRemote
       /\ comparison'.OnlyLocal = comparison.OnlyLocal
       /\ comparison'.Misses = comparison.Misses
       /\ comparison'.Matches = comparison.Matches]_vars

\* C8 witness: the second run has been made on a comparison that holds a
\* possible match and still has entries on both sides
C8_Witness ==
  /\ pc = "again"
  /\ comparison.PossibleMatches # <<>>
  /\ comparison.OnlyRemote # <<>>
  /\ comparison.OnlyLocal # <<>>

\* ------------------------------------------------------------------------
\* Properties of FileHeap
\* ------------------------------------------------------------------------

\* C9, as claimed: the paths successive PopOrNil calls return are in
\* non-decreasing order, also when pushes come between the pops.
C9_PopsNonDecreasing ==
  (popped # Nil /\ previous # Nil) => ~PathLess(popped.Path, previous.Path)

\* C9, amended: the paths returned by successive PopOrNil calls with no
\* heap.Push between them are in non-decreasing order.
C9_PopsNonDecreasingWithoutPush ==
  (popped # Nil /\ previous # Nil /\ ~pushedBetween)
    => ~PathLess(popped.Path, previous.Path)

\* C9 witness: two pops in a row returned different paths
C9_Witness ==
  /\ popped # Nil /\ previous # Nil /\ ~pushedBetween
  /\ popped.Path # previous.Path

\* C10: PopOrNil on an empty heap returns nil and leaves the heap as it is;
\* otherwise it returns a record whose path is the least in the heap and
\* removes exactly that one record.
C10_PopOrNilTakesTheMinimum ==
  [][lastOp' = "pop" =>
       IF heap = <<>>
       THEN popped' = Nil /\ heap' = heap
       ELSE /\ popped' \in Range(heap)
            /\ \A f \in Range(heap) : ~PathLess(f.Path, popped'.Path)
            /\ \A f \in Range(heap) :
                 Count(heap', f) = Count(heap, f) - (IF f = popped' THEN 1 ELSE 0)
            /\ Range(heap') \subseteq Range(heap)]_vars

\* C10 witness: a PopOrNil that returned nil right after one that took the
\* last record of the heap
C10_Witness ==
  /\ lastOp = "pop" /\ popped = Nil /\ previous # Nil /\ ~pushedBetween

\* ------------------------------------------------------------------------
\* getLocalManifest: walker, workers, supervisor and the consuming loop
\* ------------------------------------------------------------------------

\* entries of the local tree below its root
MaxTree == 3

\* handleLocalFile goroutines (main passes at least one)
MaxWorkers == 2

\* the entry path of the root of the walk
LocalRoot == "."

\* &FileError{Path: path, Error: err}
FileError(path, err) == [Path |-> path, Error |-> err]

\* what the callback of filepath.Walk is called with: a regular file that is
\* not skipped ("file", or "unreadable" when opening or reading it fails), a
\* directory or a skipped file ("dir"), or an entry Walk could not stat or
\* list ("walkerr")
EntryKinds == {"file", "unreadable", "dir", "walkerr"}

\* the trees whose root can be enumerated: the root directory, then MaxTree
\* entries in walk order
ReadableTrees ==
  {<<[Path |-> LocalRoot, Kind |-> "dir"]>> \o
     [i \in 1..MaxTree |-> [Path |-> WalkOrder[i], Kind |-> k[i]]] :
       k \in [1..MaxTree -> EntryKinds]}

\* the tree whose root cannot be enumerated: Walk calls the callback once,
\* with the root and the error
UnreadableRoot == <<[Path |-> LocalRoot, Kind |-> "walkerr"]>>

Workers == 1..workerCount

\* localConflictMarkerRegexp `\(slash conflict\)(/|$)` matches at position i
ConflictMarker ==
  <<"(", "s", "l", "a", "s", "h", " ", "c", "o", "n", "f", "l", "i", "c", "t", ")">>

ConflictMarkerAt(s, i) ==
  LET n == Len(ConflictMarker)
  IN  /\ i + n - 1 <= Len(s)
      /\ SubSeq(s, i, i + n - 1) = ConflictMarker
      /\ (i + n > Len(s) \/ s[i + n] = "/")

\* localConflictMarkerRegexp.ReplaceAllString(s, "$1"), scanning from i
RECURSIVE ReplaceConflictMarker(_, _)
ReplaceConflictMarker(s, i) ==
  LET n == Len(ConflictMarker)
  IN  IF i > Len(s) THEN <<>>
      ELSE IF ConflictMarkerAt(s, i)
           THEN IF i + n > Len(s) THEN <<>>
                ELSE <<"/">> \o ReplaceConflictMarker(s, i + n + 1)
           ELSE <<s[i]>> \o ReplaceConflictMarker(s, i + 1)

\* the path whose bytes are cs
PathOfChars(cs) == CHOOSE p \in DOMAIN Chars : Chars[p] = cs

filterLocalPath(entryPath) == PathOfChars(ReplaceConflictMarker(Chars[entryPath], 1))

\* a hashLocalFile that never fails
HashNeverFails(entry) == FALSE

\* hashLocalFile fails on the entry
HashFails(entry) == entry.Kind = "unreadable"

\* a handleLocalFile that sets OriginalPath whether or not filtering changed
\* the path
LocalFileAlwaysOriginal(entry, contentHash) ==
  [Path |-> filterLocalPath(entry.Path), OriginalPath |-> entry.Path,
   ContentHash |-> IF contentHash THEN "h1" ELSE ""]

\* the &File handleLocalFile sends for an entry it could hash (or did not
\* have to); the entry's Path is the relPath the worker computed
LocalFile(entry, contentHash) ==
  LET relPath      == entry.Path
      filteredPath == filterLocalPath(relPath)
  IN  [Path |-> filteredPath,
       OriginalPath |-> IF relPath # filteredPath THEN relPath ELSE "",
       ContentHash |-> IF contentHash THEN "h1" ELSE ""]

\* errorChan <- fe: a send on a closed channel panics; otherwise the send
\* completes when the loop of getLocalManifest takes the errorChan case,
\* appends and goes on to report the count
SendError(fe) ==
  IF errorClosed
  THEN /\ sendPanic' = TRUE
       /\ UNCHANGED <<errored, consumer>>
  ELSE /\ consumer = "select" /\ ~errorNil
       /\ errored' = Append(errored, fe)
       /\ consumer' = "progressError"
       /\ UNCHANGED sendPanic

\* a loop that keeps one record per path: the record received last replaces
\* the one the manifest holds for the same path
SendResultLastWins(file) ==
  IF resultClosed
  THEN /\ sendPanic' = TRUE
       /\ UNCHANGED <<localManifest, consumer>>
  ELSE /\ consumer = "select" /\ ~resultNil
       /\ localManifest' =
            HeapPush(SelectSeq(localManifest, LAMBDA f : f.Path # file.Path), file)
       /\ consumer' = "progressLocal"
       /\ UNCHANGED sendPanic

\* resultChan <- file: as SendError, with heap.Push(manifest, result)
SendResult(file) ==
  IF resultClosed
  THEN /\ sendPanic' = TRUE
       /\ UNCHANGED <<localManifest, consumer>>
  ELSE /\ consumer = "select" /\ ~resultNil
       /\ localManifest' = HeapPush(localManifest, file)
       /\ consumer' = "progressLocal"
       /\ UNCHANGED sendPanic

\* the callback on a directory that is not skipped, or on a skipped file
WalkSkip ==
  /\ walkIdx <= Len(tree) /\ tree[walkIdx].Kind = "dir"
  /\ walkIdx' = walkIdx + 1
  /\ UNCHANGED <<cacheVars, compareVars, heapVars, remoteVars, mainVars, tree, workerCount, processClosed,
                 workerState, workerEntry, supervisor, resultClosed, errorClosed,
                 consumer, resultNil, errorNil, errored, localErr, localCount,
                 errorCount, sendPanic>>

\* the callback called with an error: errorChan <- &FileError{entryPath, err}
WalkSendError ==
  /\ walkIdx <= Len(tree) /\ tree[walkIdx].Kind = "walkerr"
  /\ SendError(FileError(tree[walkIdx].Path, "walk"))
  /\ walkIdx' = walkIdx + 1
  /\ UNCHANGED <<cacheVars, skipContentHash, synologyMode, remoteManifest, pc, comparison,
                 iterations, remoteIn, localIn, localManifest, heapVars, remoteVars, mainVars, tree,
                 workerCount, processClosed, workerState, workerEntry, supervisor,
                 resultClosed, errorClosed, resultNil, errorNil, localErr,
                 localCount, errorCount>>

\* the callback on a regular file: processChan <- entryPath, received by the
\* range of worker k
WalkSendProcess(k) ==
  /\ walkIdx <= Len(tree) /\ tree[walkIdx].Kind \in {"file", "unreadable"}
  /\ ~processClosed
  /\ workerState[k] = "idle"
  /\ workerState' = [workerState EXCEPT ![k] = "busy"]
  /\ workerEntry' = [workerEntry EXCEPT ![k] = walkIdx]
  /\ walkIdx' = walkIdx + 1
  /\ UNCHANGED <<cacheVars, compareVars, heapVars, remoteVars, mainVars, tree, workerCount, processClosed,
                 supervisor, resultClosed, errorClosed, consumer, resultNil,
                 errorNil, errored, localErr, localCount, errorCount, sendPanic>>

\* a walker that never closes processChan
WalkCloseMissing == FALSE /\ UNCHANGED vars

\* close(processChan) once every Walk has returned
WalkClose ==
  /\ consumer # "idle"
  /\ walkIdx > Len(tree) /\ ~processClosed
  /\ processClosed' = TRUE
  /\ UNCHANGED <<cacheVars, compareVars, heapVars, remoteVars, mainVars, tree, workerCount, walkIdx, workerState,
                 workerEntry, supervisor, resultClosed, errorClosed, consumer,
                 resultNil, errorNil, errored, localErr, localCount, errorCount,
                 sendPanic>>

\* a worker that goes on to the next path without reporting the failure
WorkerDropsError(k) ==
  /\ workerState[k] = "busy"
  /\ ~skipContentHash /\ HashFails(tree[workerEntry[k]])
  /\ workerState' = [workerState EXCEPT ![k] = "idle"]
  /\ workerEntry' = [workerEntry EXCEPT ![k] = 0]
  /\ UNCHANGED <<cacheVars, compareVars, heapVars, remoteVars, mainVars, tree, workerCount,
                 walkIdx, processClosed, supervisor, resultClosed, errorClosed,
                 consumer, resultNil, errorNil, errored, localErr, localCount,
                 errorCount, sendPanic>>

\* handleLocalFile, hashing failed: errorChan <- &FileError{relPath, err};
\* continue
WorkerSendError(k) ==
  /\ workerState[k] = "busy"
  /\ ~skipContentHash /\ HashFails(tree[workerEntry[k]])
  /\ SendError(FileError(tree[workerEntry[k]].Path, "hash"))
  /\ workerState' = [workerState EXCEPT ![k] = "idle"]
  /\ workerEntry' = [workerEntry EXCEPT ![k] = 0]
  /\ UNCHANGED <<cacheVars, skipContentHash, synologyMode, remoteManifest, pc, comparison,
                 iterations, remoteIn, localIn, localManifest, heapVars, remoteVars, mainVars, tree,
                 workerCount, walkIdx, processClosed, supervisor, resultClosed,
                 errorClosed, resultNil, errorNil, localErr, localCount,
                 errorCount>>

\* handleLocalFile, no hashing or hashing succeeded: resultChan <- &File{...}
WorkerSendResult(k) ==
  /\ workerState[k] = "busy"
  /\ skipContentHash \/ ~HashFails(tree[workerEntry[k]])
  /\ \E file \in {LocalFile(tree[workerEntry[k]], ~skipContentHash)} :
       SendResult(file)
  /\ workerState' = [workerState EXCEPT ![k] = "idle"]
  /\ workerEntry' = [workerEntry EXCEPT ![k] = 0]
  /\ UNCHANGED <<cacheVars, skipContentHash, synologyMode, remoteManifest, pc, comparison,
                 iterations, remoteIn, localIn, heapVars, remoteVars, mainVars, tree, workerCount,
                 walkIdx, processClosed, supervisor, resultClosed, errorClosed,
                 resultNil, errorNil, errored, localErr, localCount, errorCount>>

\* handleLocalFile: the range ends on the closed processChan; wg.Done()
WorkerExit(k) ==
  /\ workerState[k] = "idle" /\ processClosed
  /\ workerState' = [workerState EXCEPT ![k] = "exited"]
  /\ UNCHANGED <<cacheVars, compareVars, heapVars, remoteVars, mainVars, tree, workerCount, walkIdx,
                 processClosed, workerEntry, supervisor, resultClosed,
                 errorClosed, consumer, resultNil, errorNil, errored, localErr,
                 localCount, errorCount, sendPanic>>

\* a supervisor that closes resultChan without wg.Wait()
SupervisorCloseResultEarly ==
  /\ consumer # "idle"
  /\ supervisor = "wait"
  /\ resultClosed' = TRUE
  /\ supervisor' = "closedResult"
  /\ UNCHANGED <<cacheVars, compareVars, heapVars, remoteVars, mainVars, tree, workerCount, walkIdx,
                 processClosed, workerState, workerEntry, errorClosed, consumer,
                 resultNil, errorNil, errored, localErr, localCount, errorCount,
                 sendPanic>>

\* the supervisor: wg.Wait() returns when every worker has called wg.Done();
\* close(resultChan)
SupervisorCloseResult ==
  /\ consumer # "idle"
  /\ supervisor = "wait"
  /\ \A k \in Workers : workerState[k] = "exited"
  /\ resultClosed' = TRUE
  /\ supervisor' = "closedResult"
  /\ UNCHANGED <<cacheVars, compareVars, heapVars, remoteVars, mainVars, tree, workerCount, walkIdx,
                 processClosed, workerState, workerEntry, errorClosed, consumer,
                 resultNil, errorNil, errored, localErr, localCount, errorCount,
                 sendPanic>>

\* the supervisor: close(errorChan)
SupervisorCloseError ==
  /\ supervisor = "closedResult"
  /\ errorClosed' = TRUE
  /\ supervisor' = "done"
  /\ UNCHANGED <<cacheVars, compareVars, heapVars, remoteVars, mainVars, tree, workerCount, walkIdx,
                 processClosed, workerState, workerEntry, resultClosed, consumer,
                 resultNil, errorNil, errored, localErr, localCount, errorCount,
                 sendPanic>>

\* a loop that reports the length the manifest had before the push
ConsumerProgressLocalBeforePush ==
  /\ consumer = "progressLocal"
  /\ localCount' = Len(localManifest) - 1
  /\ consumer' = "select"
  /\ UNCHANGED <<cacheVars, compareVars, heapVars, remoteVars, mainVars, tree, workerCount, walkIdx,
                 processClosed, workerState, workerEntry, supervisor,
                 resultClosed, errorClosed, resultNil, errorNil, errored,
                 localErr, errorCount, sendPanic>>

\* the loop: progressChan <- {localProgress, manifest.Len()}, received by the
\* aggregator of main, which sets localCount = update.Count
ConsumerProgressLocal ==
  /\ consumer = "progressLocal"
  /\ localCount' = Len(localManifest)
  /\ consumer' = "select"
  /\ UNCHANGED <<cacheVars, compareVars, heapVars, remoteVars, mainVars, tree, workerCount, walkIdx,
                 processClosed, workerState, workerEntry, supervisor,
                 resultClosed, errorClosed, resultNil, errorNil, errored,
                 localErr, errorCount, sendPanic>>

\* the loop: progressChan <- {errorProgress, len(errored)}, received by the
\* aggregator of main, which sets errorCount = update.Count
ConsumerProgressError ==
  /\ consumer = "progressError"
  /\ errorCount' = Len(errored)
  /\ consumer' = "select"
  /\ UNCHANGED <<cacheVars, compareVars, heapVars, remoteVars, mainVars, tree, workerCount, walkIdx,
                 processClosed, workerState, workerEntry, supervisor,
                 resultClosed, errorClosed, resultNil, errorNil, errored,
                 localErr, localCount, sendPanic>>

\* the loop: the resultChan case with ok false; resultChan = nil, and the
\* loop breaks and getLocalManifest returns once errorChan is nil too
ConsumerResultClosed ==
  /\ consumer = "select" /\ ~resultNil /\ resultClosed
  /\ resultNil' = TRUE
  /\ consumer' = IF errorNil THEN "returned" ELSE "select"
  /\ UNCHANGED <<cacheVars, compareVars, heapVars, remoteVars, mainVars, tree, workerCount, walkIdx,
                 processClosed, workerState, workerEntry, supervisor,
                 resultClosed, errorClosed, errorNil, errored, localErr,
                 localCount, errorCount, sendPanic>>

\* the loop: the errorChan case with ok false
ConsumerErrorClosed ==
  /\ consumer = "select" /\ ~errorNil /\ errorClosed
  /\ errorNil' = TRUE
  /\ consumer' = IF resultNil THEN "returned" ELSE "select"
  /\ UNCHANGED <<cacheVars, compareVars, heapVars, remoteVars, mainVars, tree, workerCount, walkIdx,
                 processClosed, workerState, workerEntry, supervisor,
                 resultClosed, errorClosed, resultNil, errored, localErr,
                 localCount, errorCount, sendPanic>>

\* getLocalManifest is called on a tree with workerCount workers: the named
\* results are an empty heap, a nil errored and a nil err; the workers, the
\* walker and the supervisor are started and the loop is entered
StartLocal ==
  /\ consumer = "idle"
  /\ \E t \in ReadableTrees \cup {UnreadableRoot}, n \in 1..MaxWorkers :
       /\ tree' = t
       /\ workerCount' = n
       /\ workerState' = [k \in 1..n |-> "idle"]
       /\ workerEntry' = [k \in 1..n |-> 0]
  /\ consumer' = "select"
  /\ UNCHANGED <<cacheVars, compareVars, heapVars, remoteVars, mainVars, walkIdx, processClosed, supervisor,
                 resultClosed, errorClosed, resultNil, errorNil, errored,
                 localErr, localCount, errorCount, sendPanic>>

InitLocal == InitCompare /\ synologyMode = FALSE /\ InitHeap /\ InitRest

NextLocal ==
  \/ StartLocal
  \/ WalkSkip
  \/ WalkSendError
  \/ \E k \in Workers : WalkSendProcess(k)
  \/ WalkClose
  \/ \E k \in Workers : WorkerSendError(k)
  \/ \E k \in Workers : WorkerSendResult(k)
  \/ \E k \in Workers : WorkerExit(k)
  \/ SupervisorCloseResult
  \/ SupervisorCloseError
  \/ ConsumerProgressLocal
  \/ ConsumerProgressError
  \/ ConsumerResultClosed
  \/ ConsumerErrorClosed

SpecLocal == InitLocal /\ [][NextLocal]_vars

\* ------------------------------------------------------------------------
\* Claims about getLocalManifest
\* ------------------------------------------------------------------------

\* the entries of the tree the walker sends on processChan
Enqueued == {i \in 1..Len(tree) : tree[i].Kind \in {"file", "unreadable"}}

\* the entries whose hashing fails in this run
FailedHash == {i \in Enqueued : ~skipContentHash /\ tree[i].Kind = "unreadable"}

\* the record a worker sends for entry i when it sends one
RecordOfEntry(i) == LocalFile(tree[i], ~skipContentHash)

\* the per-file error a worker sends for entry i when hashing fails
HashErrorOfEntry(i) == FileError(tree[i].Path, "hash")

\* C11: a file whose hashing fails is never pushed into the local manifest;
\* when getLocalManifest has returned it is in errored exactly once, every
\* other enqueued file is in the manifest, and the fatal error is nil
C11_HashFailureIsIsolated ==
  /\ \A i \in FailedHash : RecordOfEntry(i) \notin Range(localManifest)
  /\ consumer = "returned" =>
       /\ \A i \in FailedHash :
            Cardinality({j \in 1..Len(errored) : errored[j] = HashErrorOfEntry(i)}) = 1
       /\ \A i \in Enqueued \ FailedHash :
            Cardinality({j \in 1..Len(localManifest) :
                           localManifest[j] = RecordOfEntry(i)}) = 1
       /\ localErr = "nil"

\* a single worker met a hashing failure, went on to a later file, and the
\* builder returned
C11_Witness ==
  /\ consumer = "returned" /\ workerCount = 1
  /\ \E i \in FailedHash : \E j \in Enqueued \ FailedHash : i < j

\* C16: when the root of the local tree cannot be enumerated, getLocalManifest
\* returns a non-nil fatal error and the failure is not among the per-file
\* entries of errored
C16_RootFailureIsFatal ==
  (tree = UnreadableRoot /\ consumer = "returned") =>
    /\ localErr # "nil"
    /\ \A j \in 1..Len(errored) : errored[j].Path # LocalRoot

\* C18: the shutdown of getLocalManifest is ordered: processChan is closed
\* only after the walker's last send; a worker exits only after that close;
\* resultChan and then errorChan are closed only after every worker has
\* exited; the loop returns only after both are closed; and no send is ever
\* attempted on a closed resultChan or errorChan
C18_ShutdownOrder ==
  /\ processClosed => walkIdx > Len(tree)
  /\ \A k \in Workers : workerState[k] = "exited" => processClosed
  /\ resultClosed => \A k \in Workers : workerState[k] = "exited"
  /\ errorClosed => resultClosed
  /\ consumer = "returned" => resultClosed /\ errorClosed
  /\ ~sendPanic

\* the builder returned from a tree whose last entry was a walker error, after
\* both a result and an error were sent
C18_Witness ==
  /\ consumer = "returned"
  /\ tree[Len(tree)].Kind = "walkerr" /\ Len(tree) > 1
  /\ localManifest # <<>>
  /\ \E j \in 1..Len(errored) : errored[j].Error = "hash"

\* getLocalManifest under fair scheduling of its goroutines: every step of
\* the builder that stays possible is eventually taken
SpecLocalFair == InitLocal /\ [][NextLocal]_vars /\ WF_vars(NextLocal)

\* C19: under fair scheduling getLocalManifest eventually returns; until it
\* has, some goroutine can always take a step; and when it has, no worker is
\* left holding a result or an error it could not send
C19_LocalBuilderReturns ==
  /\ [](consumer # "returned" => ENABLED NextLocal)
  /\ [](consumer = "returned" => \A k \in Workers : workerState[k] = "exited")
  /\ <>(consumer = "returned")

\* every worker is blocked on a send while the loop is reporting a count
C19_Witness ==
  /\ workerCount > 1
  /\ \A k \in Workers : workerState[k] = "busy"
  /\ consumer \in {"progressLocal", "progressError"}

\* ------------------------------------------------------------------------
\* DriveListing: names, paths and the folder cache
\* ------------------------------------------------------------------------
\* A name is the sequence of its bytes; a path is the sequence of its
\* elements, an absolute path starting with the element SlashElem, so that
\* "/" is <<SlashElem>> and the empty string is <<>>.

SlashElem == <<"/">>

DotElem == <<".">>

DotDotElem == <<".", ".">>

\* filterFileName: strings.ReplaceAll(name, "/", "_")
filterFileName(name) == [i \in 1..Len(name) |-> IF name[i] = "/" THEN "_" ELSE name[i]]

\* path.Join(parentPath, name) for a clean absolute parentPath and a name
\* without "/": an empty name and "." add nothing, ".." removes the last
\* element (none at the root)
pathJoin(parentPath, name) ==
  IF name = <<>> \/ name = DotElem THEN parentPath
  ELSE IF name = DotDotElem
       THEN IF Len(parentPath) > 1 THEN SubSeq(parentPath, 1, Len(parentPath) - 1)
            ELSE parentPath
       ELSE Append(parentPath, name)

\* the number of leading elements two paths share
RECURSIVE CommonPrefix(_, _)
CommonPrefix(p, q) ==
  IF p = <<>> \/ q = <<>> \/ Head(p) # Head(q) THEN 0
  ELSE 1 + CommonPrefix(Tail(p), Tail(q))

\* filepath.Rel(basepath, targpath) for clean absolute paths: ".." for each
\* element of basepath below the shared prefix, then the rest of targpath;
\* "." when nothing is left
filepathRel(basepath, targpath) ==
  LET k   == CommonPrefix(basepath, targpath)
      ups == [i \in 1..(Len(basepath) - k) |-> DotDotElem]
      rel == ups \o SubSeq(targpath, k + 1, Len(targpath))
  IN  IF rel = <<>> THEN <<DotElem>> ELSE rel

\* strings.HasPrefix(relPath, "../") on a relative path
HasDotDotSlashPrefix(relPath) == Len(relPath) >= 2 /\ relPath[1] = DotDotElem

\* the bytes of a relative path: its elements joined by "/"
RECURSIVE PathBytes(_)
PathBytes(p) ==
  IF p = <<>> THEN <<>>
  ELSE IF Len(p) = 1 THEN p[1]
       ELSE p[1] \o <<"/">> \o PathBytes(Tail(p))

\* strings.ToLower on the bytes of the model (normalizeUnicodeCharacters
\* leaves ASCII as it is)
ToLower(s) ==
  [i \in 1..Len(s) |->
     CASE s[i] = "B" -> "b"
       [] s[i] = "D" -> "d"
       [] s[i] = "S" -> "s"
       [] OTHER -> s[i]]

\* filepath.Base of a non-empty path without a trailing "/"
Base(s) ==
  LET slashes == {i \in 1..Len(s) : s[i] = "/"}
  IN  IF slashes = {} THEN s
      ELSE LET k == CHOOSE i \in slashes : \A j \in slashes : j <= i
           IN  SubSeq(s, k + 1, Len(s))

\* skipRemoteFile: the base name is on ignoredRemoteFiles
skipRemoteFile(path) ==
  Base(Chars[path]) = <<".", "d", "s", "_", "s", "t", "o", "r", "e">>

\* trailingSpaceRegexp.ReplaceAllString(s, "/"), scanning from i
RECURSIVE ReplaceTrailingSpace(_, _)
ReplaceTrailingSpace(s, i) ==
  IF i > Len(s) THEN <<>>
  ELSE IF i < Len(s) /\ s[i] = " " /\ s[i + 1] = "/"
       THEN <<"/">> \o ReplaceTrailingSpace(s, i + 2)
       ELSE <<s[i]>> \o ReplaceTrailingSpace(s, i + 1)

filterRemotePath(entryPath, mode) ==
  IF mode THEN PathOfChars(ReplaceTrailingSpace(Chars[entryPath], 1))
  ELSE entryPath

\* &googleDriveFolder{ParentId, Name}; path "" until buildPath fills it
Folder(parentId, name) == [ParentId |-> parentId, Name |-> name, path |-> <<>>]

\* g.driveFolders[id] = folder
PutFolder(folders, id, folder) ==
  [i \in DOMAIN folders \cup {id} |-> IF i = id THEN folder ELSE folders[i]]

\* a buildPath that takes a folder missing from the cache for the root
RECURSIVE buildPathNoError(_, _)
buildPathNoError(folders, folderId) ==
  IF folderId \in DOMAIN folders
  THEN LET folder == folders[folderId]
       IN  IF folder.path = <<>>
           THEN LET r == buildPathNoError(folders, folder.ParentId)
                    p == pathJoin(r.path, filterFileName(folder.Name))
                IN  [path |-> p, notFound |-> FALSE,
                     folders |-> [r.folders EXCEPT ![folderId].path = p]]
           ELSE [path |-> folder.path, notFound |-> FALSE, folders |-> folders]
  ELSE [path |-> <<SlashElem>>, notFound |-> FALSE, folders |-> folders]

\* a buildPath that memoizes the path of the parent in place of the folder's
RECURSIVE buildPathMemoParent(_, _)
buildPathMemoParent(folders, folderId) ==
  IF folderId \in DOMAIN folders
  THEN LET folder == folders[folderId]
       IN  IF folder.path = <<>>
           THEN LET r == buildPathMemoParent(folders, folder.ParentId)
                IN  IF r.notFound
                    THEN [path |-> <<>>, notFound |-> TRUE, folders |-> r.folders]
                    ELSE LET p == pathJoin(r.path, filterFileName(folder.Name))
                         IN  [path |-> p, notFound |-> FALSE,
                              folders |-> [r.folders EXCEPT ![folderId].path = r.path]]
           ELSE [path |-> folder.path, notFound |-> FALSE, folders |-> folders]
  ELSE [path |-> <<>>, notFound |-> TRUE, folders |-> folders]

\* DriveListing.buildPath: the path of folderId, memoized in the cache;
\* notFound is the folderNotFoundError
RECURSIVE buildPath(_, _)
buildPath(folders, folderId) ==
  IF folderId \in DOMAIN folders
  THEN LET folder == folders[folderId]
       IN  IF folder.path = <<>>
           THEN LET r == buildPath(folders, folder.ParentId)
                IN  IF r.notFound
                    THEN [path |-> <<>>, notFound |-> TRUE, folders |-> r.folders]
                    ELSE LET p == pathJoin(r.path, filterFileName(folder.Name))
                         IN  [path |-> p, notFound |-> FALSE,
                              folders |-> [r.folders EXCEPT ![folderId].path = p]]
           ELSE [path |-> folder.path, notFound |-> FALSE, folders |-> folders]
  ELSE [path |-> <<>>, notFound |-> TRUE, folders |-> folders]

\* ------------------------------------------------------------------------
\* The remote listing
\* ------------------------------------------------------------------------

\* items of a listing
MaxItems == 3

\* items per listing page (the code asks for pages of 1000)
PageSize == 2

\* a *drive.File of a listing page
DriveFile(id, name, parents, isFolder, md5) ==
  [Id |-> id, Name |-> name, Parents |-> parents,
   MimeType |-> IF isFolder THEN "application/vnd.google-apps.folder" ELSE "file",
   Md5Checksum |-> md5]

\* the items the listings are made of, in the order the service lists them:
\* files in the root, in folder x, in the folder z of a share whose parent is
\* not listed, in folder x/y, a file named like folder x, an item without
\* parents, a document without a checksum, a .DS_Store, and the folders
DriveItems ==
  << DriveFile("a", <<"b", ".", "t", "x", "t">>, <<RootId>>, FALSE, "h1"),
     DriveFile("b", <<"B">>, <<"f1">>, FALSE, "h2"),
     DriveFile("c", <<"b">>, <<"f3">>, FALSE, "h1"),
     DriveFile("f", <<"a", "/", "b">>, <<"f2">>, FALSE, "h1"),
     DriveFile("g", <<"x">>, <<RootId>>, FALSE, "h2"),
     DriveFile("d", <<"b">>, <<>>, FALSE, "h1"),
     DriveFile("e", <<"b">>, <<RootId>>, FALSE, ""),
     DriveFile("ds", <<".", "D", "S", "_", "S", "t", "o", "r", "e">>, <<RootId>>, FALSE, "h1"),
     DriveFile("f1", <<"x">>, <<RootId>>, TRUE, ""),
     DriveFile("f2", <<"y">>, <<"f1">>, TRUE, ""),
     DriveFile("f3", <<"z">>, <<"s">>, TRUE, "") >>

\* the items at the positions of S, in listing order
RECURSIVE ItemsAt(_)
ItemsAt(S) ==
  IF S = {} THEN <<>>
  ELSE LET i == CHOOSE j \in S : \A k \in S : j <= k
       IN  <<DriveItems[i]>> \o ItemsAt(S \ {i})

\* the pages of a listing: PageSize items each, the last one with an empty
\* NextPageToken; a listing without items is one empty page
RECURSIVE PagesOf(_)
PagesOf(items) ==
  IF Len(items) <= PageSize THEN <<items>>
  ELSE <<SubSeq(items, 1, PageSize)>> \o PagesOf(SubSeq(items, PageSize + 1, Len(items)))

Listings ==
  {PagesOf(ItemsAt(S)) : S \in {T \in SUBSET (1..Len(DriveItems)) : Cardinality(T) <= MaxItems}}

\* the root paths main passes to the listing
RootPaths == {<<SlashElem>>, <<SlashElem, <<"x">>>>}

\* a handleDriveFiles that takes an item without parents for a child of the
\* root (the assignment the code has commented out)
RECURSIVE handleDriveFilesRootParent(_, _, _, _, _)
handleDriveFilesRootParent(page, i, dFiles, dFolders, handledFiles) ==
  IF i > Len(page)
  THEN [driveFiles |-> dFiles, driveFolders |-> dFolders, handledFiles |-> handledFiles]
  ELSE LET file     == page[i]
           parentId == IF Len(file.Parents) = 0 THEN RootId ELSE file.Parents[1]
       IN  IF file.MimeType = "application/vnd.google-apps.folder"
           THEN handleDriveFilesRootParent(page, i + 1, dFiles,
                  PutFolder(dFolders, file.Id, Folder(parentId, file.Name)),
                  handledFiles)
           ELSE IF file.Md5Checksum # ""
                THEN handleDriveFilesRootParent(page, i + 1, Append(dFiles, file),
                       dFolders, handledFiles + 1)
                ELSE handleDriveFilesRootParent(page, i + 1, dFiles, dFolders,
                       handledFiles)

\* DriveListing.handleDriveFiles over the items of a page from position i on
RECURSIVE handleDriveFilesFrom(_, _, _, _, _)
handleDriveFilesFrom(page, i, dFiles, dFolders, handledFiles) ==
  IF i > Len(page)
  THEN [driveFiles |-> dFiles, driveFolders |-> dFolders, handledFiles |-> handledFiles]
  ELSE LET file == page[i]
       IN  IF Len(file.Parents) = 0
           THEN handleDriveFilesFrom(page, i + 1, dFiles, dFolders, handledFiles)
           ELSE IF file.MimeType = "application/vnd.google-apps.folder"
                THEN handleDriveFilesFrom(page, i + 1, dFiles,
                       PutFolder(dFolders, file.Id, Folder(file.Parents[1], file.Name)),
                       handledFiles)
                ELSE IF file.Md5Checksum # ""
                     THEN handleDriveFilesFrom(page, i + 1, Append(dFiles, file),
                            dFolders, handledFiles + 1)
                     ELSE handleDriveFilesFrom(page, i + 1, dFiles, dFolders,
                            handledFiles)

handleDriveFiles(page, dFiles, dFolders) ==
  handleDriveFilesFrom(page, 1, dFiles, dFolders, 0)

\* ------------------------------------------------------------------------
\* getGoogleDriveManifest and DriveListing.Files
\* ------------------------------------------------------------------------

\* the attempts retry.Do makes before it gives up
apiRetries == 10

\* the variables the remote builder leaves alone, remoteManifest aside
besideRemote ==
  <<skipContentHash, synologyMode, localManifest, pc, comparison, iterations,
    remoteIn, localIn, heapVars, localVars, mainVars, cacheVars>>

\* getGoogleDriveManifest is called: an empty manifest, a listing with its
\* RootPath, the relay goroutine; Files empties driveFiles and driveFolders
\* and asks for the root id
StartRemote ==
  /\ rpc = "idle"
  /\ \E r \in RootPaths, l \in Listings :
       /\ RootPath' = r
       /\ drivePages' = l
  /\ rpc' = "root"
  /\ UNCHANGED <<besideRemote, remoteManifest, attempts, rootId, pageIdx,
                 driveFiles, driveFolders, scannedFiles, resolveIdx, listed,
                 driveError, relayBusy, relayCount, remoteCount>>

\* a retry.Do that allows one attempt more
AttemptFailsOnceMore(err) ==
  /\ attempts <= apiRetries
  /\ attempts' = attempts + 1
  /\ IF attempts + 1 > apiRetries
     THEN /\ driveError' = err
          /\ listed' = <<>>
          /\ rpc' = "returned"
     ELSE UNCHANGED <<driveError, listed, rpc>>
  /\ UNCHANGED <<besideRemote, remoteManifest, RootPath, drivePages, rootId,
                 pageIdx, driveFiles, driveFolders, scannedFiles, resolveIdx,
                 relayBusy, relayCount, remoteCount>>

\* retry.Do(fn, apiRetries, ...): fn failed once more; the error is returned
\* when no attempt is left, and Files and getGoogleDriveManifest return it
\* with no files and an empty manifest
AttemptFails(err) ==
  /\ attempts < apiRetries
  /\ attempts' = attempts + 1
  /\ IF attempts + 1 >= apiRetries
     THEN /\ driveError' = err
          /\ listed' = <<>>
          /\ rpc' = "returned"
     ELSE UNCHANGED <<driveError, listed, rpc>>
  /\ UNCHANGED <<besideRemote, remoteManifest, RootPath, drivePages, rootId,
                 pageIdx, driveFiles, driveFolders, scannedFiles, resolveIdx,
                 relayBusy, relayCount, remoteCount>>

\* getRootId: Files.Get("root") fails
GetRootFails ==
  /\ rpc = "root"
  /\ AttemptFails("Unable to retrieve root")

\* getRootId: Files.Get("root") answers; the root folder is cached as "/"
GetRootSucceeds ==
  /\ rpc = "root"
  /\ attempts < apiRetries
  /\ rootId' = RootId
  /\ driveFolders' = PutFolder(driveFolders, RootId,
                               [ParentId |-> "", Name |-> <<>>, path |-> <<SlashElem>>])
  /\ attempts' = 0
  /\ rpc' = "page"
  /\ UNCHANGED <<besideRemote, remoteManifest, RootPath, drivePages, pageIdx,
                 driveFiles, scannedFiles, resolveIdx, listed, driveError,
                 relayBusy, relayCount, remoteCount>>

\* listAll: Files.List fails
ListPageFails ==
  /\ rpc = "page"
  /\ AttemptFails("list")

\* listAll: Files.List answers with the page; handleDriveFiles classifies its
\* items and Files goes on to report scannedFiles
ListPageSucceeds ==
  /\ rpc = "page"
  /\ attempts < apiRetries
  /\ \E h \in {handleDriveFiles(drivePages[pageIdx], driveFiles, driveFolders)} :
       /\ driveFiles' = h.driveFiles
       /\ driveFolders' = h.driveFolders
       /\ scannedFiles' = scannedFiles + h.handledFiles
  /\ pageIdx' = pageIdx + 1
  /\ attempts' = 0
  /\ rpc' = "update"
  /\ UNCHANGED <<besideRemote, remoteManifest, RootPath, drivePages, rootId,
                 resolveIdx, listed, driveError, relayBusy, relayCount,
                 remoteCount>>

\* updateChan <- scannedFiles, received by the relay goroutine; Files asks
\* for the next page unless NextPageToken was empty
SendUpdate ==
  /\ rpc = "update"
  /\ ~relayBusy
  /\ relayBusy' = TRUE
  /\ relayCount' = scannedFiles
  /\ rpc' = IF pageIdx > Len(drivePages) THEN "resolve" ELSE "page"
  /\ UNCHANGED <<besideRemote, remoteManifest, RootPath, drivePages, attempts,
                 rootId, pageIdx, driveFiles, driveFolders, scannedFiles,
                 resolveIdx, listed, driveError, remoteCount>>

\* the relay goroutine: progressChan <- {remoteProgress, updateCount},
\* received by the aggregator of main, which sets remoteCount = update.Count
RelayForward ==
  /\ relayBusy
  /\ progressOpen
  /\ remoteCount' = relayCount
  /\ relayBusy' = FALSE
  /\ UNCHANGED <<besideRemote, remoteManifest, RootPath, drivePages, rpc,
                 attempts, rootId, pageIdx, driveFiles, driveFolders,
                 scannedFiles, resolveIdx, listed, driveError, relayCount>>

\* Files, second loop, one driveFile: its parent's path from buildPath; a
\* folderNotFoundError skips the file; otherwise the path relative to
\* RootPath, and the file is kept unless that path starts with "../"
ResolveFile ==
  /\ rpc = "resolve"
  /\ resolveIdx <= Len(driveFiles)
  /\ LET file     == driveFiles[resolveIdx]
         parentId == IF Len(file.Parents) > 0 THEN file.Parents[1] ELSE rootId
     IN  \E r \in {buildPath(driveFolders, parentId)} :
           /\ driveFolders' = r.folders
           /\ IF r.notFound
              THEN UNCHANGED listed
              ELSE \E relPath \in {filepathRel(RootPath,
                                     pathJoin(r.path, filterFileName(file.Name)))} :
                     IF ~HasDotDotSlashPrefix(relPath)
                     THEN listed' = Append(listed,
                            File(PathOfChars(ToLower(PathBytes(relPath))),
                                 file.Md5Checksum))
                     ELSE UNCHANGED listed
  /\ resolveIdx' = resolveIdx + 1
  /\ UNCHANGED <<besideRemote, remoteManifest, RootPath, drivePages, rpc,
                 attempts, rootId, pageIdx, driveFiles, scannedFiles, driveError,
                 relayBusy, relayCount, remoteCount>>

\* getGoogleDriveManifest, the loop over the files Files returned, from
\* position i on: skipRemoteFile, filterRemotePath, heap.Push
RECURSIVE PushRemoteFiles(_, _, _, _)
PushRemoteFiles(fs, i, manifest, mode) ==
  IF i > Len(fs) THEN manifest
  ELSE IF skipRemoteFile(fs[i].Path)
       THEN PushRemoteFiles(fs, i + 1, manifest, mode)
       ELSE LET originalPath == fs[i].Path
                filtered     == filterRemotePath(originalPath, mode)
                file         == [Path |-> filtered,
                                 OriginalPath |-> IF filtered # originalPath
                                                  THEN originalPath ELSE "",
                                 ContentHash |-> fs[i].ContentHash]
            IN  PushRemoteFiles(fs, i + 1, HeapPush(manifest, file), mode)

\* Files returns its files with a nil error; getGoogleDriveManifest fills the
\* manifest and returns it
ReturnFiles ==
  /\ rpc = "resolve"
  /\ resolveIdx > Len(driveFiles)
  /\ \E m \in {PushRemoteFiles(listed, 1, remoteManifest, synologyMode)} :
       remoteManifest' = m
  /\ rpc' = "returned"
  /\ UNCHANGED <<besideRemote, RootPath, drivePages, attempts, rootId, pageIdx,
                 driveFiles, driveFolders, scannedFiles, resolveIdx, listed,
                 driveError, relayBusy, relayCount, remoteCount>>

InitRemote == InitCompare /\ skipContentHash = FALSE /\ InitHeap /\ InitRest

NextRemote ==
  \/ StartRemote
  \/ GetRootFails
  \/ GetRootSucceeds
  \/ ListPageFails
  \/ ListPageSucceeds
  \/ SendUpdate
  \/ RelayForward
  \/ ResolveFile
  \/ ReturnFiles

SpecRemote == InitRemote /\ [][NextRemote]_vars

\* ------------------------------------------------------------------------
\* Claims about DriveListing.Files
\* ------------------------------------------------------------------------

\* the items of the listing
RECURSIVE Flatten(_)
Flatten(pages) == IF pages = <<>> THEN <<>> ELSE Head(pages) \o Flatten(Tail(pages))

ListedItems == Range(Flatten(drivePages))

IsFolder(item) == item.MimeType = "application/vnd.google-apps.folder"

\* the files with a parent and a checksum
ContentFiles ==
  {f \in ListedItems : ~IsFolder(f) /\ Len(f.Parents) > 0 /\ f.Md5Checksum # ""}

\* the ids the folder cache knows once every page is in: the root and the
\* listed folders that have a parent
CachedIds == {RootId} \cup {f.Id : f \in {g \in ListedItems : IsFolder(g) /\ Len(g.Parents) > 0}}

CachedFolder(id) == CHOOSE f \in ListedItems : IsFolder(f) /\ f.Id = id

\* the parent chain of id reaches the root through cached folders
RECURSIVE ReachesRoot(_)
ReachesRoot(id) ==
  \/ id = RootId
  \/ id \in CachedIds /\ ReachesRoot(CachedFolder(id).Parents[1])

\* the path of folder id: the filtered names from the root down
RECURSIVE FolderPath(_)
FolderPath(id) ==
  IF id = RootId THEN <<SlashElem>>
  ELSE Append(FolderPath(CachedFolder(id).Parents[1]),
              filterFileName(CachedFolder(id).Name))

FullPath(f) == Append(FolderPath(f.Parents[1]), filterFileName(f.Name))

\* the path of file f relative to RootPath starts with "../"
OutsideRoot(f) == HasDotDotSlashPrefix(filepathRel(RootPath, FullPath(f)))

\* the record Files returns for f when it returns one
ListedRecord(f) ==
  File(PathOfChars(ToLower(PathBytes(filepathRel(RootPath, FullPath(f))))),
       f.Md5Checksum)

\* Files has returned after every page was listed
FilesDone == rpc = "returned" /\ pageIdx > Len(drivePages)

\* C12 as stated: there is no error, a file under a folder that does not
\* reach the root is omitted, and every file that does reach the root is
\* returned
C12_ReachableFilesAreListed ==
  FilesDone =>
    /\ driveError = "nil"
    /\ Len(listed) = Cardinality({f \in ContentFiles : ReachesRoot(f.Parents[1])})

\* C12 amended: there is no error, and the returned files are exactly, once
\* each, the files that reach the root and whose path relative to RootPath
\* does not start with "../"
C12_ReachableFilesInsideRootAreListed ==
  FilesDone =>
    LET kept == {f \in ContentFiles : ReachesRoot(f.Parents[1]) /\ ~OutsideRoot(f)}
    IN  /\ driveError = "nil"
        /\ Len(listed) = Cardinality(kept)
        /\ \A f \in kept : Count(listed, ListedRecord(f)) = 1

\* Files returned a file that reaches the root and dropped a file under a
\* cached folder whose parent is not in the cache
C12_Witness ==
  /\ FilesDone
  /\ listed # <<>>
  /\ \E f \in ContentFiles :
       /\ f.Parents[1] \in CachedIds
       /\ ~ReachesRoot(f.Parents[1])

\* the content-bearing files of the first n pages, in listing order
RECURSIVE KeptOfPages(_)
KeptOfPages(n) ==
  IF n = 0 THEN <<>>
  ELSE KeptOfPages(n - 1) \o
       SelectSeq(drivePages[n],
                 LAMBDA f : ~IsFolder(f) /\ Len(f.Parents) > 0 /\ f.Md5Checksum # "")

\* C17: a call is never attempted more than apiRetries times; when the
\* attempts of root resolution or of a page are used up, Files has returned
\* an error and no files, the manifest is empty and no page is asked for any
\* more; and what Files holds is what the pages answered so far hold,
\* whatever attempts failed before
C17_BoundedRetry ==
  /\ attempts <= apiRetries
  /\ rpc \in {"root", "page"} => attempts < apiRetries
  /\ driveError # "nil" <=> (rpc = "returned" /\ attempts = apiRetries)
  /\ driveError # "nil" =>
       /\ listed = <<>> /\ remoteManifest = <<>>
       /\ ~ENABLED (ListPageSucceeds \/ ListPageFails \/ GetRootSucceeds \/ GetRootFails)
  /\ rootId = "" => driveFiles = <<>> /\ pageIdx = 1
  /\ rpc # "idle" =>
       /\ driveFiles = KeptOfPages(pageIdx - 1)
       /\ scannedFiles = Len(driveFiles)

\* the first page was listed and the attempts of the second were used up
C17_Witness ==
  /\ driveError = "list"
  /\ pageIdx = 2 /\ scannedFiles > 0
  /\ Len(drivePages) > 1

\* ------------------------------------------------------------------------
\* The progress counters of main
\* ------------------------------------------------------------------------

\* One builder run with main's aggregator. The two builders share nothing
\* but the aggregator, which keeps one counter per update type, so each
\* builder is followed on its own.
NextBuilders ==
  \/ rpc = "idle" /\ NextLocal
  \/ consumer = "idle" /\ NextRemote

SpecBuilders == Init /\ [][NextBuilders]_vars

\* no count the aggregator receives is below the one before
CountsNeverDecrease ==
  /\ remoteCount' >= remoteCount
  /\ localCount' >= localCount
  /\ errorCount' >= errorCount

\* the local builder has returned: its last updates have been received
LocalCountsAreFinalSizes ==
  consumer = "returned" =>
    /\ localCount = Len(localManifest)
    /\ errorCount = Len(errored)

\* the remote builder has returned and the relay has forwarded its last count
RemoteUpdatesDone == rpc = "returned" /\ ~relayBusy

MaxMainFiles == 2

\* the records the builders push
MainFiles == {File(p, "h1") : p \in {"a b.txt", "a_b.txt"}}

Produced == Len(remoteManifest) + Len(localManifest) + Len(errored)

\* what main's own steps leave alone
builderState ==
  <<cacheVars, skipContentHash, synologyMode, heapVars, tree, workerCount, walkIdx,
    processClosed, workerState, workerEntry, supervisor, resultClosed,
    errorClosed, consumer, resultNil, errorNil, localCount, errorCount,
    sendPanic, RootPath, drivePages, rpc, attempts, rootId, pageIdx, driveFiles,
    driveFolders, scannedFiles, resolveIdx, listed, relayBusy, relayCount,
    remoteCount>>

\* main: wg.Add(2) and the two go statements
StartMain ==
  /\ mpc = "idle"
  /\ mpc' = "wait"
  /\ remoteRun' = "running"
  /\ localRun' = "running"
  /\ UNCHANGED <<builderState, remoteManifest, localManifest, pc, comparison,
                 iterations, remoteIn, localIn, errored, localErr, driveError,
                 progressOpen>>

\* getGoogleDriveManifest: heap.Push(manifest, file)
MainRemotePush ==
  /\ remoteRun = "running"
  /\ Produced < MaxMainFiles
  /\ \E f \in MainFiles : remoteManifest' = HeapPush(remoteManifest, f)
  /\ UNCHANGED <<builderState, mainVars, localManifest, pc, comparison,
                 iterations, remoteIn, localIn, errored, localErr, driveError>>

\* getGoogleDriveManifest returns the error of listing.Files, before its
\* loop: driveManifest, driveError = ...; wg.Done()
MainRemoteFails ==
  /\ remoteRun = "running"
  /\ remoteManifest = <<>>
  /\ \E err \in {"Unable to retrieve root", "list"} : driveError' = err
  /\ remoteRun' = "returned"
  /\ UNCHANGED <<builderState, mpc, localRun, progressOpen, remoteManifest,
                 localManifest, pc, comparison, iterations, remoteIn, localIn,
                 errored, localErr>>

\* getGoogleDriveManifest returns manifest, nil; wg.Done()
MainRemoteReturns ==
  /\ remoteRun = "running"
  /\ remoteRun' = "returned"
  /\ UNCHANGED <<builderState, mpc, localRun, progressOpen, remoteManifest,
                 localManifest, pc, comparison, iterations, remoteIn, localIn,
                 errored, localErr, driveError>>

\* getLocalManifest: heap.Push(manifest, result)
MainLocalPush ==
  /\ localRun = "running"
  /\ Produced < MaxMainFiles
  /\ \E f \in MainFiles : localManifest' = HeapPush(localManifest, f)
  /\ UNCHANGED <<builderState, mainVars, remoteManifest, pc, comparison,
                 iterations, remoteIn, localIn, errored, localErr, driveError>>

\* getLocalManifest: errored = append(errored, e)
MainLocalError ==
  /\ localRun = "running"
  /\ Produced < MaxMainFiles
  /\ \E p \in {"a b.txt", LocalRoot} : errored' = Append(errored, FileError(p, "walk"))
  /\ UNCHANGED <<builderState, mainVars, remoteManifest, localManifest, pc,
                 comparison, iterations, remoteIn, localIn, localErr, driveError>>

\* getLocalManifest returns; its err was never assigned; wg.Done()
MainLocalReturns ==
  /\ localRun = "running"
  /\ localRun' = "returned"
  /\ UNCHANGED <<builderState, mpc, remoteRun, progressOpen, remoteManifest,
                 localManifest, pc, comparison, iterations, remoteIn, localIn,
                 errored, localErr, driveError>>

\* a main that waits for the remote builder only
MainWaitRemoteOnly ==
  /\ mpc = "wait"
  /\ remoteRun = "returned"
  /\ progressOpen' = FALSE
  /\ mpc' = "closed"
  /\ UNCHANGED <<builderState, remoteRun, localRun, remoteManifest,
                 localManifest, pc, comparison, iterations, remoteIn, localIn,
                 errored, localErr, driveError>>

\* main: wg.Wait() returns once both goroutines have called wg.Done();
\* close(progressChan)
MainWait ==
  /\ mpc = "wait"
  /\ remoteRun = "returned" /\ localRun = "returned"
  /\ progressOpen' = FALSE
  /\ mpc' = "closed"
  /\ UNCHANGED <<builderState, remoteRun, localRun, remoteManifest,
                 localManifest, pc, comparison, iterations, remoteIn, localIn,
                 errored, localErr, driveError>>

\* a main that compares without looking at the errors
MainCompareAnyway ==
  /\ mpc = "closed"
  /\ \E r \in {MergeManifests(remoteManifest, localManifest, errored)} :
       /\ comparison' = HeuristicPasses(r.comparison, synologyMode)
       /\ iterations' = r.iterations
       /\ remoteManifest' = r.remoteManifest
       /\ localManifest' = r.localManifest
  /\ remoteIn' = remoteManifest
  /\ localIn' = localManifest
  /\ pc' = "done"
  /\ mpc' = IF IsSuccessful(comparison') THEN "exit0" ELSE "exit1"
  /\ UNCHANGED <<builderState, remoteRun, localRun, progressOpen, errored,
                 localErr, driveError>>

\* a main that panics as soon as an error is there
MainPanicEarly ==
  /\ mpc \in {"wait", "closed"}
  /\ driveError # "nil" \/ localErr # "nil"
  /\ mpc' = "panicked"
  /\ UNCHANGED <<builderState, remoteRun, localRun, progressOpen,
                 remoteManifest, localManifest, pc, comparison, iterations,
                 remoteIn, localIn, errored, localErr, driveError>>

\* main: panic(driveError) or panic(localErr)
MainPanic ==
  /\ mpc = "closed"
  /\ driveError # "nil" \/ localErr # "nil"
  /\ mpc' = "panicked"
  /\ UNCHANGED <<builderState, remoteRun, localRun, progressOpen,
                 remoteManifest, localManifest, pc, comparison, iterations,
                 remoteIn, localIn, errored, localErr, driveError>>

\* main: no fatal error; compareManifests pops both heaps empty, the result
\* is printed and the exit status follows IsSuccessful
MainCompare ==
  /\ mpc = "closed"
  /\ driveError = "nil" /\ localErr = "nil"
  /\ \E r \in {MergeManifests(remoteManifest, localManifest, errored)} :
       /\ comparison' = HeuristicPasses(r.comparison, synologyMode)
       /\ iterations' = r.iterations
       /\ remoteManifest' = r.remoteManifest
       /\ localManifest' = r.localManifest
  /\ remoteIn' = remoteManifest
  /\ localIn' = localManifest
  /\ pc' = "done"
  /\ mpc' = IF IsSuccessful(comparison') THEN "exit0" ELSE "exit1"
  /\ UNCHANGED <<builderState, remoteRun, localRun, progressOpen, errored,
                 localErr, driveError>>

InitMain == Init /\ skipContentHash = FALSE /\ synologyMode = FALSE

NextMain ==
  \/ StartMain
  \/ MainRemotePush
  \/ MainRemoteFails
  \/ MainRemoteReturns
  \/ MainLocalPush
  \/ MainLocalError
  \/ MainLocalReturns
  \/ MainWait
  \/ MainPanic
  \/ MainCompare

SpecMain == InitMain /\ [][NextMain]_vars

\* ------------------------------------------------------------------------
\* Claims about main
\* ------------------------------------------------------------------------

BothReturned == remoteRun = "returned" /\ localRun = "returned"

\* a record leaves one of the heaps
PopsARecord ==
  \/ Len(remoteManifest') < Len(remoteManifest)
  \/ Len(localManifest') < Len(localManifest)

\* C13: compareManifests starts only when both builders have returned: a
\* heap loses a record only then, and it gains one only while its builder
\* is still running
C13_CompareAfterBothBuilders ==
  [][/\ pc' # "build" => BothReturned /\ BothReturned'
     /\ PopsARecord => BothReturned
     /\ Len(remoteManifest') > Len(remoteManifest) => remoteRun = "running"
     /\ Len(localManifest') > Len(localManifest) => localRun = "running"]_vars

\* the comparison ran on two manifests that both held records
C13_Witness ==
  /\ pc = "done"
  /\ remoteIn # <<>> /\ localIn # <<>>
  /\ remoteManifest = <<>> /\ localManifest = <<>>

\* one builder has returned a fatal error and the other is still running
FatalWhileOtherRuns ==
  \/ remoteRun = "returned" /\ driveError # "nil" /\ localRun = "running"
  \/ localRun = "returned" /\ localErr # "nil" /\ remoteRun = "running"

C15_FatalErrorSkipsComparison ==
  (driveError # "nil" \/ localErr # "nil") =>
    /\ pc = "build"
    /\ comparison = NewComparison(<<>>)
    /\ mpc \notin {"exit0", "exit1"}
    /\ ~ENABLED MainCompare

\* main has panicked on the error of the remote builder, with records in
\* the local manifest
C15_Witness ==
  /\ mpc = "panicked"
  /\ driveError # "nil"
  /\ localManifest # <<>>

\* main has ended
MainEnded == mpc \in {"exit0", "exit1", "panicked"}

\* compareManifests was called and has returned
ComparisonRan == pc = "done"

EntriesWithPath(p) == {i \in Enqueued \ FailedHash : RecordOfEntry(i).Path = p}

Sent == {i \in Enqueued : i < walkIdx}

\* the errors in errored that workers produced
WorkerErrors == {j \in DOMAIN errored : errored[j].Error = "hash"}

\* the workers that hold a path they have not answered yet
BusyWorkers == {k \in Workers : workerState[k] = "busy"}

\* C23: every path sent on processChan is, at every moment, either held by
\* a worker or answered by exactly one record; when getLocalManifest has
\* returned every enqueued path was sent, no worker holds one, each has one
\* File in the manifest or one FileError in errored and never both, and
\* len(manifest) + the errors of the workers is the number of enqueued paths
C23_NoPathIsDropped ==
  /\ Len(localManifest) + Cardinality(WorkerErrors) + Cardinality(BusyWorkers)
       = Cardinality(Sent)
  /\ consumer = "returned" =>
       /\ Sent = Enqueued
       /\ BusyWorkers = {}
       /\ \A i \in Enqueued :
            Count(localManifest, RecordOfEntry(i)) + Count(errored, HashErrorOfEntry(i)) = 1
       /\ Len(localManifest) + Cardinality(WorkerErrors) = Cardinality(Enqueued)

\* two workers have answered three paths, with records and with an error,
\* and the builder has returned
C23_Witness ==
  /\ consumer = "returned" /\ workerCount = 2
  /\ Cardinality(Enqueued) = 3
  /\ Len(localManifest) = 2
  /\ Cardinality(WorkerErrors) = 1

\* ------------------------------------------------------------------------
\* main with the remote builder in full: the relay and close(progressChan)
\* ------------------------------------------------------------------------
\* The local builder is followed only up to its return; the remote builder
\* takes the steps of getGoogleDriveManifest, and its goroutine in main
\* calls wg.Done() once that has returned.

\* the relay goroutine: its send meets the closed progressChan and panics
RelaySendOnClosed ==
  /\ relayBusy
  /\ ~progressOpen
  /\ sendPanic' = TRUE
  /\ relayBusy' = FALSE
  /\ UNCHANGED <<cacheVars, compareVars, heapVars, mainVars, tree, workerCount, walkIdx,
                 processClosed, workerState, workerEntry, supervisor,
                 resultClosed, errorClosed, consumer, resultNil, errorNil,
                 errored, localErr, localCount, errorCount, RootPath,
                 drivePages, rpc, attempts, rootId, pageIdx, driveFiles,
                 driveFolders, scannedFiles, resolveIdx, listed, driveError,
                 relayCount, remoteCount>>

NextProgress ==
  \/ StartMain
  \/ mpc # "idle" /\ NextRemote
  \/ rpc = "returned" /\ MainRemoteReturns
  \/ MainLocalReturns
  \/ MainWait
  \/ RelaySendOnClosed

SpecProgress == InitMain /\ [][NextProgress]_vars

\* C24: no send is made on progressChan after main has closed it: when
\* getGoogleDriveManifest has returned, and so when main closes the channel,
\* the relay goroutine holds no count it has still to forward
C24_RelayForwardsBeforeClose ==
  /\ ~sendPanic
  /\ rpc = "returned" => ~relayBusy
  /\ ~progressOpen => ~relayBusy

\* ------------------------------------------------------------------------
\* What compareManifests leaves in its lists
\* ------------------------------------------------------------------------

\* the comparison FindPossibleMatches is called with
BeforeFuzzy == IF synologyMode THEN FindKnownSyncIssues(comparison) ELSE comparison

\* seq without the entries at the positions of S, the others in their order
KeepOutside(seq, S) ==
  LET idx == SelectSeq([i \in 1..Len(seq) |-> i], LAMBDA i : i \notin S)
  IN  [k \in 1..Len(idx) |-> seq[idx[k]]]

\* the positions of R in increasing order
RECURSIVE Ascending(_)
Ascending(R) ==
  IF R = {} THEN <<>>
  ELSE LET i == CHOOSE j \in R : \A k \in R : j <= k
       IN  <<i>> \o Ascending(R \ {i})

\* from mc to after, the remote entries at the positions R were paired with
\* the local entries m gives them: one new possible match for each, in the
\* order of the remote entries, and exactly those entries gone from the lists
RemovesExactly(mc, after, R, m) ==
  /\ \A i, j \in R : m[i] = m[j] => i = j
  /\ \A i \in R : Candidates(mc.OnlyRemote[i], mc.OnlyLocal[m[i]])
  /\ after.OnlyRemote = KeepOutside(mc.OnlyRemote, R)
  /\ after.OnlyLocal = KeepOutside(mc.OnlyLocal, {m[i] : i \in R})
  /\ after.PossibleMatches =
       mc.PossibleMatches \o
         [k \in 1..Cardinality(R) |->
            [LocalPath  |-> mc.OnlyLocal[m[Ascending(R)[k]]].Path,
             RemotePath |-> mc.OnlyRemote[Ascending(R)[k]].Path]]

\* C25: FindPossibleMatches removes exactly the entries it paired: each new
\* possible match names one remote and one local entry, no entry is in two
\* of them, and OnlyRemote and OnlyLocal are left with the other entries in
\* the order they had
C25_RemovesExactlyThePaired ==
  [][pc = "merged" =>
       \E R \in SUBSET DOMAIN BeforeFuzzy.OnlyRemote :
         \E m \in [R -> DOMAIN BeforeFuzzy.OnlyLocal] :
           RemovesExactly(BeforeFuzzy, comparison', R, m)]_vars

\* the second only-remote entry was paired with the first only-local one:
\* the remote entry before it and the local entry after it are still there
C25_Witness ==
  /\ pc = "done"
  /\ Len(comparison.PossibleMatches) = 1
  /\ Len(comparison.OnlyRemote) = 1 /\ Len(comparison.OnlyLocal) = 1
  /\ PathLess(comparison.OnlyRemote[1].Path, comparison.PossibleMatches[1].RemotePath)
  /\ PathLess(comparison.PossibleMatches[1].LocalPath, comparison.OnlyLocal[1].Path)

\* the paths of the entries of files that hold a ":", in their order
ColonPathsOf(files) ==
  LET colon == SelectSeq(files, LAMBDA f : f.Path \in ColonPaths)
  IN  [k \in 1..Len(colon) |-> colon[k].Path]

\* the only-local entries the fuzzy match would pair with an only-remote
\* entry whose path holds a ":"
CandidatesOfKnownIssues(mc) ==
  {l \in Range(mc.OnlyLocal) :
     \E r \in Range(mc.OnlyRemote) : r.Path \in ColonPaths /\ Candidates(r, l)}

NoDiscrepancy(mc) ==
  mc.OnlyRemote = <<>> /\ mc.OnlyLocal = <<>> /\ mc.ContentMismatch = <<>>

\* C27: with known-issue mode off, the comparison compareManifests returns
\* has Misses = len(OnlyRemote) + len(OnlyLocal) + len(ContentMismatch) and
\* an empty KnownSyncIssues, so IsSuccessful() holds exactly when the three
\* lists are empty
C27_MissesAreTheListLengths ==
  (pc = "done" /\ ~synologyMode) =>
    /\ comparison.Misses = Len(comparison.OnlyRemote) + Len(comparison.OnlyLocal)
                             + Len(comparison.ContentMismatch)
    /\ comparison.KnownSyncIssues = <<>>
    /\ IsSuccessful(comparison) <=> NoDiscrepancy(comparison)

\* with the mode off, a comparison that paired two entries and was left with
\* a content mismatch
C27_Witness ==
  /\ pc = "done" /\ ~synologyMode
  /\ Len(comparison.PossibleMatches) = 1
  /\ Len(comparison.ContentMismatch) = 1
  /\ comparison.Misses = 1

\* the records compareManifests was called with
RecordsIn == Len(remoteIn) + Len(localIn)

\* C28: compareManifests ends after at most |remote| + |local| iterations
\* of its loop with both heaps empty, and every record it popped is
\* accounted for: |remote| + |local| = 2 * (Matches + len(ContentMismatch))
\* + len(OnlyRemote) + len(OnlyLocal) + len(KnownSyncIssues), with
\* duplicate paths as with distinct ones
C28_EveryRecordIsAccountedFor ==
  pc # "build" =>
    /\ remoteManifest = <<>> /\ localManifest = <<>>
    /\ iterations <= RecordsIn
    /\ 2 * iterations >= RecordsIn
    /\ RecordsIn = 2 * (comparison.Matches + Len(comparison.ContentMismatch))
                     + Len(comparison.OnlyRemote) + Len(comparison.OnlyLocal)
                     + Len(comparison.KnownSyncIssues)

\* a comparison in known-issue mode of a remote manifest that held a path
\* twice: one record matched the local one, the other became a known issue
C28_Witness ==
  /\ pc = "done"
  /\ ~NoDuplicatePaths(remoteIn)
  /\ localIn # <<>>
  /\ iterations < RecordsIn
  /\ comparison.Matches > 0
  /\ comparison.KnownSyncIssues # <<>>

\* the paths are in non-decreasing order
NonDecreasing(paths) ==
  \A i \in 1..(Len(paths) - 1) : ~PathLess(paths[i + 1], paths[i])

\* the paths of a list of records, in its order
PathSeq(files) == [i \in 1..Len(files) |-> files[i].Path]

\* C29: when compareManifests returns, OnlyRemote, OnlyLocal,
\* ContentMismatch and KnownSyncIssues are each in non-decreasing path
\* order, in either mode and whatever the passes removed
C29_ListsAreInPathOrder ==
  pc = "done" =>
    /\ NonDecreasing(PathSeq(comparison.OnlyRemote))
    /\ NonDecreasing(PathSeq(comparison.OnlyLocal))
    /\ NonDecreasing(comparison.ContentMismatch)
    /\ NonDecreasing(comparison.KnownSyncIssues)

\* known-issue mode took two different paths out of four only-remote
\* entries and left the two others
C29_Witness ==
  /\ pc = "done" /\ synologyMode
  /\ Len(comparison.KnownSyncIssues) = 2
  /\ comparison.KnownSyncIssues[1] # comparison.KnownSyncIssues[2]
  /\ Len(comparison.OnlyRemote) = 2
  /\ comparison.OnlyRemote[1].Path # comparison.OnlyRemote[2].Path

\* ------------------------------------------------------------------------
\* buildPath on its own: any folder cache, folders resolved in any order
\* ------------------------------------------------------------------------

\* folders of a cache, the root aside
MaxFolders == 3

FolderIds == <<"f1", "f2", "f3", "f4">>

CacheIds == {FolderIds[i] : i \in 1..MaxFolders}

\* the names folders are given: one with a "/", and the names "." and ".."
FolderNames == {<<"a", "/", "b">>, DotElem, DotDotElem}

\* the parent ids: the root, the folders, and the id "s" of a folder that
\* is not in the cache
ParentIds == {RootId, "s"} \cup CacheIds

\* the parent relation of a cache is acyclic: no folder is its own ancestor
RECURSIVE IsAncestor(_, _, _, _)
IsAncestor(parents, a, id, n) ==
  /\ n > 0
  /\ id \in DOMAIN parents
  /\ (parents[id] = a \/ IsAncestor(parents, a, parents[id], n - 1))

Acyclic(parents) == \A id \in DOMAIN parents : ~IsAncestor(parents, id, id, MaxFolders)

\* the caches handleDriveFiles can leave: the root with path "/" and the
\* listed folders, none with a path yet
FolderCaches ==
  {[id \in CacheIds \cup {RootId} |->
      IF id = RootId THEN [ParentId |-> "", Name |-> <<>>, path |-> <<SlashElem>>]
      ELSE Folder(parents[id], names[id])] :
     parents \in {q \in [CacheIds -> ParentIds] : Acyclic(q)},
     names \in [CacheIds -> FolderNames]}

\* the pages are in: the folder cache is filled
CacheFolders ==
  /\ rpc = "idle"
  /\ rootId' = RootId
  /\ \E c \in FolderCaches : driveFolders' = c
  /\ rpc' = "resolve"
  /\ UNCHANGED <<besideRemote, remoteManifest, RootPath, drivePages, attempts,
                 pageIdx, driveFiles, scannedFiles, resolveIdx, listed,
                 driveError, relayBusy, relayCount, remoteCount>>

\* Files calls buildPath for the parent of a file
BuildPathOf(id) ==
  /\ rpc = "resolve"
  /\ \E r \in {buildPath(driveFolders, id)} : driveFolders' = r.folders
  /\ UNCHANGED <<besideRemote, remoteManifest, RootPath, drivePages, rpc,
                 attempts, rootId, pageIdx, driveFiles, scannedFiles,
                 resolveIdx, listed, driveError, relayBusy, relayCount,
                 remoteCount>>

NextBuildPath ==
  \/ CacheFolders
  \/ \E id \in ParentIds : BuildPathOf(id)

SpecBuildPath == InitMain /\ [][NextBuildPath]_vars

\* the parent chain of id ends at the root
RECURSIVE ChainToRoot(_)
ChainToRoot(id) ==
  \/ id = RootId
  \/ id \in CacheIds /\ ChainToRoot(driveFolders[id].ParentId)

\* the names of the folders from the root down to id, "/" replaced by "_"
RECURSIVE NamesFromRoot(_)
NamesFromRoot(id) ==
  IF id = RootId THEN <<>>
  ELSE Append(NamesFromRoot(driveFolders[id].ParentId),
              [i \in 1..Len(driveFolders[id].Name) |->
                 IF driveFolders[id].Name[i] = "/" THEN "_" ELSE driveFolders[id].Name[i]])

\* the "/"-join of the root path and those names
SlashJoin(id) == <<SlashElem>> \o NamesFromRoot(id)

\* no folder from the root down to id is named "." or ".."
PlainNames(id) ==
  \A k \in 1..Len(NamesFromRoot(id)) : NamesFromRoot(id)[k] \notin {DotElem, DotDotElem}

\* the walk of the parent chain with no path kept: path.Join at every level
RECURSIVE UnmemoizedPath(_)
UnmemoizedPath(id) ==
  IF id = RootId THEN <<SlashElem>>
  ELSE pathJoin(UnmemoizedPath(driveFolders[id].ParentId),
                filterFileName(driveFolders[id].Name))

\* a path the cache holds is left as it is
NeverOverwritten ==
  \A id \in DOMAIN driveFolders :
    driveFolders[id].path # <<>> => driveFolders'[id].path = driveFolders[id].path

\* C30 as stated: for a folder whose chain reaches the root, buildPath
\* returns the "/"-join of the root path and the filtered names from the
\* root down, which is what the walk without memoization gives, whatever
\* was resolved before; and a memoized path is never overwritten
C30_PathIsTheJoinOfTheNames ==
  /\ [][NeverOverwritten]_vars
  /\ [](rpc = "resolve" =>
          \A id \in CacheIds \cup {RootId} :
            ChainToRoot(id) =>
              \E r \in {buildPath(driveFolders, id)} :
                /\ ~r.notFound
                /\ r.path = SlashJoin(id)
                /\ r.path = UnmemoizedPath(id))

\* C30 amended: for a folder whose chain reaches the root, buildPath returns
\* what the walk without memoization gives, path.Join applied from the root
\* down, whatever was resolved before; that is the "/"-join of the root path
\* and the filtered names when no folder on the chain is named "." or "..";
\* a path in the cache is that same path and is never overwritten; and a
\* folder whose chain does not reach the root gives folderNotFoundError
C30_PathIsTheUnmemoizedWalk ==
  /\ [][NeverOverwritten]_vars
  /\ [](rpc = "resolve" =>
          \A id \in CacheIds \cup {RootId} :
            \E r \in {buildPath(driveFolders, id)} :
              IF ChainToRoot(id)
              THEN /\ ~r.notFound
                   /\ r.path = UnmemoizedPath(id)
                   /\ PlainNames(id) => r.path = SlashJoin(id)
                   /\ driveFolders[id].path \in {<<>>, r.path}
              ELSE r.notFound /\ driveFolders[id].path = <<>>)

\* a folder two levels below the root was resolved from the memoized path
\* of its parent, and a folder outside the root's tree is in the cache
C30_Witness ==
  /\ rpc = "resolve"
  /\ \E a, b, c \in CacheIds :
       /\ driveFolders[a].ParentId = b /\ driveFolders[b].ParentId = RootId
       /\ driveFolders[b].path = <<SlashElem, <<"a", "_", "b">>>>
       /\ driveFolders[a].path = <<SlashElem, <<"a", "_", "b">>, <<"a", "_", "b">>>>
       /\ driveFolders[c].ParentId = "s"

\* ------------------------------------------------------------------------
\* DriveDirectoryCache: AddFolder and PathLookup in any order
\* ------------------------------------------------------------------------

\* m[k] = v
Put(m, k, v) == [i \in DOMAIN m \cup {k} |-> IF i = k THEN v ELSE m[i]]

\* d.Parents[id] = parentId; d.Names[id] = name
AddFolder(d, id, name, parentId) ==
  [d EXCEPT !.Parents = Put(d.Parents, id, parentId),
            !.Names = Put(d.Names, id, name)]

\* d.SharedDirectories[id] = true
MarkShared(d, id) == [d EXCEPT !.SharedDirectories = @ \cup {id}]

\* DriveDirectoryCache.PathLookup: the path, whether an error is returned,
\* and the cache afterwards
RECURSIVE PathLookup(_, _)
PathLookup(d, id) ==
  IF id \in DOMAIN d.Paths
  THEN [path |-> d.Paths[id], err |-> FALSE, d |-> d]
  ELSE IF id \in d.SharedDirectories
       THEN [path |-> <<>>, err |-> TRUE, d |-> d]
       ELSE IF id \notin DOMAIN d.Parents
            THEN [path |-> <<>>, err |-> TRUE, d |-> MarkShared(d, id)]
            ELSE LET r == PathLookup(d, d.Parents[id])
                 IN  IF r.err
                     THEN [path |-> <<>>, err |-> TRUE, d |-> MarkShared(r.d, id)]
                     ELSE LET p == r.path \o <<"/">> \o r.d.Names[id]
                          IN  [path |-> p, err |-> FALSE,
                               d |-> [r.d EXCEPT !.Paths = Put(r.d.Paths, id, p)]]

\* the listing names a folder: each id is listed once, and the parents of
\* a drive make no cycle
DoAddFolder(id, name, parentId) ==
  /\ id \notin DOMAIN driveDirectoryCache.Parents
  /\ \E d \in {AddFolder(driveDirectoryCache, id, name, parentId)} :
       /\ Acyclic(d.Parents)
       /\ driveDirectoryCache' = d
  /\ UNCHANGED <<lookup, compareVars, heapVars, localVars, remoteVars, mainVars>>

\* path, err := driveDirectoryCache.PathLookup(id)
DoPathLookup(id) ==
  /\ \E r \in {PathLookup(driveDirectoryCache, id)} :
       /\ driveDirectoryCache' = r.d
       /\ lookup' = [id |-> id, path |-> r.path, err |-> r.err]
  /\ UNCHANGED <<compareVars, heapVars, localVars, remoteVars, mainVars>>

NextCache ==
  \/ \E id \in CacheIds, name \in FolderNames, parentId \in ParentIds :
       DoAddFolder(id, name, parentId)
  \/ \E id \in ParentIds : DoPathLookup(id)

SpecCache == InitMain /\ [][NextCache]_vars

\* the parent chain of id in the cache ends at the root id
RECURSIVE ParentsReachRoot(_, _, _)
ParentsReachRoot(parents, id, n) ==
  \/ id = RootId
  \/ /\ n > 0
     /\ id \in DOMAIN parents
     /\ ParentsReachRoot(parents, parents[id], n - 1)

\* "/" and the name of every folder from the root down to id, concatenated
RECURSIVE SlashNames(_, _)
SlashNames(d, id) ==
  IF id = RootId THEN <<>>
  ELSE SlashNames(d, d.Parents[id]) \o <<"/">> \o d.Names[id]

\* C31: whatever AddFolder and PathLookup calls came before, PathLookup(id)
\* succeeds exactly when the parent chain of id reaches the root id, then
\* returns "/" + name concatenated down the chain, and otherwise fails and
\* leaves id marked as shared
C31_LookupFollowsTheFolders ==
  \A id \in ParentIds :
    \E r \in {PathLookup(driveDirectoryCache, id)} :
      IF ParentsReachRoot(driveDirectoryCache.Parents, id, MaxFolders)
      THEN ~r.err /\ r.path = SlashNames(driveDirectoryCache, id)
      ELSE r.err /\ id \in r.d.SharedDirectories

\* ------------------------------------------------------------------------
\* handleDriveFiles on its own: any page the service can answer with
\* ------------------------------------------------------------------------

\* the items of the pages: a file and a folder without parents, folders
\* with two parents, with a checksum, and with the id of another folder,
\* a file with two parents, and a file without a checksum
PageItems ==
  { DriveFile("d", <<"b">>, <<>>, FALSE, "h1"),
    DriveFile("f4", <<"w">>, <<>>, TRUE, ""),
    DriveFile("f1", <<"x">>, <<RootId, "s">>, TRUE, ""),
    DriveFile("f2", <<"y">>, <<"f1">>, TRUE, "h2"),
    DriveFile("f1", <<"z">>, <<"f2">>, TRUE, ""),
    DriveFile("a", <<"b">>, <<"f1", RootId>>, FALSE, "h1"),
    DriveFile("e", <<"b">>, <<RootId>>, FALSE, "") }

\* the pages of up to n of these items
PagesUpTo(n) == UNION {[1..k -> PageItems] : k \in 0..n}

\* the items of the pages so far
RECURSIVE ItemCount(_)
ItemCount(pages) ==
  IF pages = <<>> THEN 0 ELSE Len(Head(pages)) + ItemCount(Tail(pages))

\* Files is called: the root id is known and the root cached as "/"
StartListing ==
  /\ rpc = "idle"
  /\ rootId' = RootId
  /\ driveFolders' = PutFolder(driveFolders, RootId,
                               [ParentId |-> "", Name |-> <<>>, path |-> <<SlashElem>>])
  /\ rpc' = "page"
  /\ UNCHANGED <<besideRemote, remoteManifest, RootPath, drivePages, attempts,
                 pageIdx, driveFiles, scannedFiles, resolveIdx, listed,
                 driveError, relayBusy, relayCount, remoteCount>>

\* the service answers with a page: scannedFiles += g.handleDriveFiles(page)
HandlePage(page) ==
  /\ rpc = "page"
  /\ ItemCount(drivePages) + Len(page) <= MaxItems
  /\ drivePages' = Append(drivePages, page)
  /\ \E h \in {handleDriveFiles(page, driveFiles, driveFolders)} :
       /\ driveFiles' = h.driveFiles
       /\ driveFolders' = h.driveFolders
       /\ scannedFiles' = scannedFiles + h.handledFiles
  /\ pageIdx' = pageIdx + 1
  /\ UNCHANGED <<besideRemote, remoteManifest, RootPath, rpc, attempts, rootId,
                 resolveIdx, listed, driveError, relayBusy, relayCount,
                 remoteCount>>

NextPages ==
  \/ StartListing
  \/ \E page \in PagesUpTo(PageSize) \ {<<>>} : HandlePage(page)

SpecPages == InitMain /\ [][NextPages]_vars

\* the item is a folder
IsFolderItem(file) == file.MimeType = "application/vnd.google-apps.folder"

\* the classes of an item: cached as a folder, kept as a file, or dropped
ItemClass(file) ==
  IF file.Parents = <<>> THEN "dropped"
  ELSE IF IsFolderItem(file) THEN "cached"
  ELSE IF file.Md5Checksum # "" THEN "kept"
  ELSE "dropped"

\* the items of a page that are kept as files, in page order
RECURSIVE KeptOf(_)
KeptOf(page) ==
  IF page = <<>> THEN <<>>
  ELSE (IF ItemClass(Head(page)) = "kept" THEN <<Head(page)>> ELSE <<>>)
       \o KeptOf(Tail(page))

\* the positions of the page whose item is cached under id
CachedAt(page, id) ==
  {i \in 1..Len(page) : page[i].Id = id /\ ItemClass(page[i]) = "cached"}

\* a page has been handled in this step
PageHandled == pageIdx' = pageIdx + 1

\* C32: handleDriveFiles puts each item of the page in one class: an item
\* without a parent is dropped, folder or not; a folder with a parent is
\* cached under its id with its first parent, its name and no path; another
\* item with a parent is kept as a file when its checksum is not empty and
\* dropped otherwise; nothing else changes in the cache or the file list,
\* and the count returned is the number of files kept from the page
C32_EachItemIsClassifiedOneWay ==
  [][PageHandled =>
      \E page \in {drivePages'[pageIdx]} :
        /\ driveFiles' = driveFiles \o KeptOf(page)
        /\ scannedFiles' - scannedFiles = Len(KeptOf(page))
        /\ DOMAIN driveFolders' =
             DOMAIN driveFolders \cup {page[i].Id : i \in {j \in 1..Len(page) : ItemClass(page[j]) = "cached"}}
        /\ \A id \in DOMAIN driveFolders' :
             IF CachedAt(page, id) = {}
             THEN driveFolders'[id] = driveFolders[id]
             ELSE \E i \in CachedAt(page, id) :
                    /\ \A j \in CachedAt(page, id) : j <= i
                    /\ driveFolders'[id] =
                         [ParentId |-> page[i].Parents[1], Name |-> page[i].Name,
                          path |-> <<>>]]_vars

\* two pages are in: a folder without parents was dropped, a folder with two
\* parents is cached under its first one, one file with a checksum was kept
\* and counted
C32_Witness ==
  /\ rpc = "page" /\ Len(drivePages) = 2
  /\ \E i \in 1..Len(drivePages[1]) :
       IsFolderItem(drivePages[1][i]) /\ drivePages[1][i].Parents = <<>>
  /\ "f4" \notin DOMAIN driveFolders
  /\ "f1" \in DOMAIN driveFolders /\ driveFolders["f1"] = Folder(RootId, <<"x">>)
  /\ Len(driveFiles) = 1 /\ driveFiles[1].Id = "a"
  /\ scannedFiles = 1

\* ------------------------------------------------------------------------
\* Files, second loop, on its own: files anywhere in the tree, any RootPath
\* ------------------------------------------------------------------------

\* the root paths of a listing: "/", "/x" and "/x/y"
DeepRootPaths == RootPaths \cup {<<SlashElem, <<"x">>, <<"y">>>>}

\* the cache after the pages: the root, the folders x and "x " in it, and
\* y in x
TreeFolders ==
  PutFolder(PutFolder(PutFolder(PutFolder(<<>>,
      RootId, [ParentId |-> "", Name |-> <<>>, path |-> <<SlashElem>>]),
      "f1", Folder(RootId, <<"x">>)),
      "f2", Folder("f1", <<"y">>)),
      "f3", Folder(RootId, <<"x", " ">>))

\* the files of the pages: b in the root, a file named like the folder x,
\* b in x, a/b in x/y, a file named ".." in x, and b in "x "
TreeFiles ==
  { DriveFile("a", <<"b">>, <<RootId>>, FALSE, "h1"),
    DriveFile("g", <<"x">>, <<RootId>>, FALSE, "h2"),
    DriveFile("b", <<"b">>, <<"f1">>, FALSE, "h2"),
    DriveFile("f", <<"a", "/", "b">>, <<"f2">>, FALSE, "h1"),
    DriveFile("u", DotDotElem, <<"f1">>, FALSE, "h1"),
    DriveFile("t", <<"b">>, <<"f3">>, FALSE, "h2") }

\* Files has listed every page: its files and folders are in
PagesListed ==
  /\ rpc = "idle"
  /\ \E r \in DeepRootPaths : RootPath' = r
  /\ rootId' = RootId
  /\ driveFolders' = TreeFolders
  /\ \E fs \in UNION {[1..k -> TreeFiles] : k \in 0..MaxItems} : driveFiles' = fs
  /\ rpc' = "resolve"
  /\ UNCHANGED <<besideRemote, remoteManifest, drivePages, attempts, pageIdx,
                 scannedFiles, resolveIdx, listed, driveError, relayBusy,
                 relayCount, remoteCount>>

NextResolve ==
  \/ PagesListed
  \/ ResolveFile

SpecResolve == InitMain /\ [][NextResolve]_vars

\* the relative path leaves the directory it is relative to: it is ".." or
\* starts with "../"
LeavesRoot(p) ==
  \E cs \in {Chars[p]} :
    /\ Len(cs) >= 2 /\ cs[1] = "." /\ cs[2] = "."
    /\ Len(cs) = 2 \/ cs[3] = "/"

\* C33: no file Files returns has a path that leaves RootPath: a file whose
\* path relative to RootPath is ".." (it resolved to the parent of RootPath)
\* or starts with "../" is excluded
C33_ReturnedFilesAreInsideRoot ==
  \A i \in 1..Len(listed) : ~LeavesRoot(listed[i].Path)

\* ------------------------------------------------------------------------
\* OriginalPath in the two manifests
\* ------------------------------------------------------------------------

\* One builder is followed from its call to its return: the local one over
\* a walked tree, or the remote one from the files and folders of the pages.
NextOriginal ==
  \/ rpc = "idle" /\ NextLocal
  \/ consumer = "idle" /\ NextResolve
  \/ consumer = "idle" /\ ReturnFiles

SpecOriginal == Init /\ [][NextOriginal]_vars

\* the paths of the modelled trees that filtering changes, with what it
\* makes of them: the conflict marker is stripped from a local path, the
\* space before a "/" from a remote path in known-issue mode
LocalFiltered == {<<"b(slash conflict)", "b">>}

RemoteFiltered == IF synologyMode THEN {<<"x /b", "x/b">>} ELSE {}

\* the record of pre-filter path p and hash h: Path is the filtered path and
\* OriginalPath is p when filtering changes p, and else Path is p and
\* OriginalPath is empty
Marked(p, h, filtered) ==
  IF \E c \in filtered : c[1] = p
  THEN [Path |-> (CHOOSE c \in filtered : c[1] = p)[2], OriginalPath |-> p,
        ContentHash |-> h]
  ELSE [Path |-> p, OriginalPath |-> "", ContentHash |-> h]

\* the record has an OriginalPath exactly when it is one filtering made
WellMarked(r, filtered) ==
  IF r.OriginalPath # "" THEN <<r.OriginalPath, r.Path>> \in filtered
  ELSE \A c \in filtered : c[1] # r.Path

\* C34: every record in either manifest has a non-empty OriginalPath exactly
\* when filtering changed its path, and that is then the path before
\* filtering; otherwise OriginalPath is empty and Path is the path before
\* filtering. When a builder has returned, its manifest holds for each
\* source path (an entry a worker hashed, a file Files returned) the record
\* so marked, and nothing else
C34_OriginalPathOnlyWhenFiltered ==
  /\ \A i \in DOMAIN localManifest : WellMarked(localManifest[i], LocalFiltered)
  /\ \A i \in DOMAIN remoteManifest : WellMarked(remoteManifest[i], RemoteFiltered)
  /\ consumer = "returned" =>
       /\ Len(localManifest) = Cardinality(Enqueued \ FailedHash)
       /\ \A i \in Enqueued \ FailedHash :
            Count(localManifest,
                  Marked(tree[i].Path, IF skipContentHash THEN "" ELSE "h1",
                         LocalFiltered)) = 1
  /\ (rpc = "returned" /\ driveError = "nil") =>
       /\ Len(remoteManifest) = Len(listed)
       /\ \A i \in DOMAIN listed :
            \E e \in {Marked(listed[i].Path, listed[i].ContentHash, RemoteFiltered)} :
              Count(remoteManifest, e) =
                Cardinality({j \in DOMAIN listed :
                  listed[j].Path = listed[i].Path
                    /\ listed[j].ContentHash = listed[i].ContentHash})

\* getGoogleDriveManifest has returned in known-issue mode: the file b of
\* the folder "x " is in the manifest as x/b with OriginalPath "x /b", and
\* the file b of the folder x as x/b without an OriginalPath
C34_Witness ==
  /\ rpc = "returned" /\ synologyMode
  /\ [Path |-> "x/b", OriginalPath |-> "x /b", ContentHash |-> "h2"] \in Range(remoteManifest)
  /\ [Path |-> "x/b", OriginalPath |-> "", ContentHash |-> "h2"] \in Range(remoteManifest)

\* ------------------------------------------------------------------------
\* The walker over a tree with ignored directories and files in it
\* ------------------------------------------------------------------------

ignoredExtensions ==
  {<<".", "g", "d", "o", "c">>, <<".", "g", "s", "h", "e", "e", "t">>,
   <<".", "g", "m", "a", "p">>, <<".", "g", "s", "l", "i", "d", "e", "s">>,
   <<".", "g", "d", "r", "a", "w">>}

ignoredFiles == {<<"I", "c", "o", "n", "\r">>, <<".", "D", "S", "_", "S", "t", "o", "r", "e">>}

ignoredDirectories ==
  {<<"@", "e", "a", "D", "i", "r">>,
   <<".", "t", "m", "p", ".", "d", "r", "i", "v", "e", "d", "o", "w", "n", "l", "o", "a", "d">>}

skipLocalFile(path) ==
  \/ Base(Chars[path]) \in ignoredFiles
  \/ Ext(Chars[path]) \in ignoredExtensions

\* a skipLocalDir that skips nothing
skipLocalDirNever(path) == FALSE

skipLocalDir(path) == Base(Chars[path]) \in ignoredDirectories

\* the entries a local tree is made of, in the lexical order filepath.Walk
\* visits them, each with the position of its directory (0: the root)
LocalEntries ==
  << [Path |-> ".DS_Store",   Parent |-> 0, IsDir |-> FALSE],
     [Path |-> "@eaDir",      Parent |-> 0, IsDir |-> TRUE],
     [Path |-> "@eaDir/b",    Parent |-> 2, IsDir |-> FALSE],
     [Path |-> "b",           Parent |-> 0, IsDir |-> FALSE],
     [Path |-> "b.gdoc",      Parent |-> 0, IsDir |-> FALSE],
     [Path |-> "x",           Parent |-> 0, IsDir |-> TRUE],
     [Path |-> "x/@eaDir",    Parent |-> 6, IsDir |-> TRUE],
     [Path |-> "x/@eaDir/b",  Parent |-> 7, IsDir |-> FALSE],
     [Path |-> "x/b",         Parent |-> 6, IsDir |-> FALSE] >>

\* filepath.Walk reaches the entry: the callback returned SkipDir for none
\* of the directories above it
RECURSIVE Reached(_)
Reached(i) ==
  \E e \in {LocalEntries[i]} :
    e.Parent = 0 \/ (Reached(e.Parent) /\ ~skipLocalDir(LocalEntries[e.Parent].Path))

\* what becomes of the entry: "file" or "unreadable" when the callback sends
\* it on processChan, "dir" when it does not or is not called at all
CallbackKind(i, readable) ==
  LET e == LocalEntries[i]
  IN  IF ~Reached(i) \/ e.IsDir \/ skipLocalFile(e.Path) THEN "dir"
      ELSE IF readable THEN "file" ELSE "unreadable"

\* the trees of up to MaxTree of these entries, each entry with its
\* directory, walked from the root
WalkedTrees ==
  {<<[Path |-> LocalRoot, Kind |-> "dir"]>> \o
     [k \in 1..Cardinality(S) |->
        LET i == CHOOSE j \in S : Cardinality({m \in S : m < j}) = k - 1
        IN  [Path |-> LocalEntries[i].Path, Kind |-> CallbackKind(i, readable)]] :
     S \in {T \in SUBSET (1..Len(LocalEntries)) :
              /\ Cardinality(T) <= MaxTree
              /\ \A i \in T : LocalEntries[i].Parent \in T \cup {0}},
     readable \in BOOLEAN}

\* getLocalManifest is called on such a tree
StartWalk ==
  /\ consumer = "idle"
  /\ \E t \in WalkedTrees, n \in 1..MaxWorkers :
       /\ tree' = t
       /\ workerCount' = n
       /\ workerState' = [k \in 1..n |-> "idle"]
       /\ workerEntry' = [k \in 1..n |-> 0]
  /\ consumer' = "select"
  /\ UNCHANGED <<cacheVars, compareVars, heapVars, remoteVars, mainVars, walkIdx,
                 processClosed, supervisor, resultClosed, errorClosed, resultNil,
                 errorNil, errored, localErr, localCount, errorCount, sendPanic>>

NextWalk ==
  \/ StartWalk
  \/ WalkSkip
  \/ \E k \in Workers : WalkSendProcess(k)
  \/ WalkClose
  \/ \E k \in Workers : WorkerSendError(k)
  \/ \E k \in Workers : WorkerSendResult(k)
  \/ \E k \in Workers : WorkerExit(k)
  \/ SupervisorCloseResult
  \/ SupervisorCloseError
  \/ ConsumerProgressLocal
  \/ ConsumerProgressError
  \/ ConsumerResultClosed
  \/ ConsumerErrorClosed

SpecWalk == InitLocal /\ [][NextWalk]_vars

\* the paths of the tree that are ignored: the files with an ignored name
\* or extension and the files beneath an ignored directory
IgnoredFilePaths == {".DS_Store", "@eaDir/b", "b.gdoc", "x/@eaDir/b"}

\* the paths of the regular files of the tree that are not ignored
PlainFilePaths == {"b", "x/b"}

\* the errors workers sent for path p
HashErrorsOf(p) == {j \in DOMAIN errored : errored[j].Error = "hash" /\ errored[j].Path = p}

\* C35: the walker never sends on processChan a path beneath an ignored
\* directory or a file with an ignored name or extension, so no worker ever
\* holds one and none is in the manifest or, from a worker, in errored; and
\* when getLocalManifest has returned every other regular file of the tree
\* has been answered once
C35_IgnoredPathsAreNeverSent ==
  /\ \A k \in Workers :
       workerState[k] = "busy" => tree[workerEntry[k]].Path \notin IgnoredFilePaths
  /\ \A i \in DOMAIN localManifest :
       /\ localManifest[i].Path \notin IgnoredFilePaths
       /\ localManifest[i].OriginalPath \notin IgnoredFilePaths
  /\ \A p \in IgnoredFilePaths : HashErrorsOf(p) = {}
  /\ consumer = "returned" =>
       \A i \in DOMAIN tree :
         tree[i].Path \in PlainFilePaths =>
           CountPath(localManifest, tree[i].Path)
             + Cardinality(HashErrorsOf(tree[i].Path)) = 1

\* the tree held an ignored directory with a file in it and the file b
\* beside it: getLocalManifest has returned with b alone in the manifest
C35_Witness ==
  /\ consumer = "returned"
  /\ \E i \in DOMAIN tree : tree[i].Path = "@eaDir/b"
  /\ PathsOf(localManifest) = {"b"}
  /\ errored = <<>>

====
